---- MODULE Spec2Model ----
(***************************************************************************)
(* Model of the agent delegation runtime of agent_evo:                     *)
(*   - ToolCallParser.parse_response      (agent_evo/utils/parser.py)      *)
(*   - ToolExecutor.validate_arguments    (agent_evo/core/tool_executor.py)*)
(*   - AgentRunner.run_agent              (agent_evo/core/agent_runner.py) *)
(*   - TeamRunner.run_team                (agent_evo/core/team_runner.py)  *)
(*                                                                         *)
(* Text is modelled line by line.  A line is a record [k, a, b]:           *)
(*   k = "text"  a plain line whose content is a ("" is a blank line)      *)
(*   k = "BTC"   the line "BEGIN_TOOL_CALL a"                              *)
(*   k = "BA"    the line "BEGIN_ARG a"                                    *)
(*   k = "EA"    the line "END_ARG"                                        *)
(*   k = "ETC"   the line "END_TOOL_CALL"                                  *)
(*   k = "DLG"   the line "[DELEGATE: a] b"                                *)
(*   k = "FIN"   the line "<FINISHED>"                                     *)
(*   k = "CONT"  the walker's synthesized continuation task line           *)
(* A response, a task and a string value are sequences of lines.           *)
(***************************************************************************)
EXTENDS Integers, Sequences, FiniteSets, TLC

VARIABLES
    pc,                 \* position of the modelled call
    team,               \* Team: agent_ids, edges, entry_point
    max_rounds,         \* run_team parameter
    max_iterations,     \* run_agent parameter
    \* ---- run_team locals
    chat_history,
    execution_history,
    current_agent_id,
    current_task,
    visited_agents,
    round_num,
    rounds_left,        \* what range(max_rounds) has not yet produced
    available_agents,
    \* ---- run_agent locals
    messages,
    history,
    iteration,
    delegation,
    is_finished,
    result,             \* value returned by run_agent
    tools,              \* custom tools handed to run_agent
    files,              \* FileSystem.files
    model_calls,        \* llm_client.generate calls of this turn (observer)
    \* ---- outcome of run_team
    ret,                \* value returned by run_team
    stop_cause,         \* which exit of the walk was taken (observer)
    \* ---- the callers of run_team
    caller,             \* who started the walk
    run_no,             \* runs started through the same AgentEvoApp
    run_doc,            \* the run record the service layer keeps
    judge_result        \* what judge_team gave its caller

walk_vars == <<chat_history, execution_history, current_agent_id, current_task,
               visited_agents, round_num, rounds_left, ret, stop_cause>>
turn_vars == <<messages, history, iteration, delegation, is_finished, result,
               model_calls>>
svc_vars == <<caller, run_no, run_doc, judge_result>>
conf_vars == <<team, max_rounds, max_iterations, tools, svc_vars>>
vars == <<pc, conf_vars, walk_vars, available_agents, turn_vars, files>>

(***************************************************************************)
(* Bounds                                                                  *)
(***************************************************************************)
MaxRounds == 3          \* max_rounds ranges over 0..MaxRounds
MaxIterations == 2      \* iteration cap of one turn

(***************************************************************************)
(* Lines                                                                   *)
(***************************************************************************)
Txt(s) == [k |-> "text", a |-> s, b |-> ""]
BTC(n) == [k |-> "BTC", a |-> n, b |-> ""]
BA(n) == [k |-> "BA", a |-> n, b |-> ""]
EA == [k |-> "EA", a |-> "", b |-> ""]
ETC == [k |-> "ETC", a |-> "", b |-> ""]
DLG(to, rest) == [k |-> "DLG", a |-> to, b |-> rest]
FIN == [k |-> "FIN", a |-> "", b |-> ""]

CONT(name, prev) == [k |-> "CONT", a |-> name, b |-> prev]

None == [none |-> TRUE]
NoName == "<None>"
EmptyStr == <<Txt("")>>

Last(s) == s[Len(s)]

(***************************************************************************)
(* ToolCallParser._process_arg_value                                       *)
(***************************************************************************)
\* the line is a triple-quote-only line
IsTripleQuote(line) == line.k = "text" /\ line.a \in {"QQQ", "qqq"}

\* int(stripped) succeeds ('.' not in stripped)
IsIntLiteral(s) == s \in {"42", "0", "-7"}
\* '.' in stripped and float(stripped) succeeds
IsFloatLiteral(s) == s \in {"3.14", "2."}
\* stripped.lower() is 'true' or 'false'
IsBoolLiteral(s) == s \in {"true", "True", "TRUE", "false", "False", "FALSE"}
\* stripped.lower() in ('none', 'null')
IsNoneLiteral(s) == s \in {"none", "None", "NONE", "null", "Null", "NULL"}

StrValue(ls) == [t |-> "str", v |-> ls]

\* mutant: true, false, none and null are matched in lower case only
CoerceSingleLine_LowerCaseOnly(ls) ==
    LET line == ls[1] IN
    IF Len(ls) # 1 THEN StrValue(ls)
    ELSE IF line.k # "text" THEN StrValue(ls)
    ELSE IF IsIntLiteral(line.a) THEN [t |-> "int", v |-> ls]
    ELSE IF IsFloatLiteral(line.a) THEN [t |-> "float", v |-> ls]
    ELSE IF line.a \in {"true", "false"} THEN [t |-> "bool", v |-> ls]
    ELSE IF line.a \in {"none", "null"} THEN [t |-> "none", v |-> ls]
    ELSE StrValue(ls)

\* the part below "Try to parse as a simple type if it's a single line"
CoerceSingleLine(ls) ==
    LET line == ls[1] IN
    IF Len(ls) # 1 THEN StrValue(ls)
    ELSE IF line.k # "text" THEN StrValue(ls)
    ELSE IF IsIntLiteral(line.a) THEN [t |-> "int", v |-> ls]
    ELSE IF IsFloatLiteral(line.a) THEN [t |-> "float", v |-> ls]
    ELSE IF IsBoolLiteral(line.a) THEN [t |-> "bool", v |-> ls]
    ELSE IF IsNoneLiteral(line.a) THEN [t |-> "none", v |-> ls]
    ELSE StrValue(ls)

\* mutant: only the first line of the body is kept
process_arg_value_FirstLine(ls) ==
    IF ls = <<>> THEN StrValue(EmptyStr) ELSE CoerceSingleLine(<<ls[1]>>)

process_arg_value(ls) ==
    IF ls = <<>> THEN StrValue(EmptyStr)
    ELSE IF Len(ls) >= 2 /\ IsTripleQuote(ls[1]) /\ IsTripleQuote(Last(ls))
         THEN IF Len(ls) > 2
              THEN CoerceSingleLine(SubSeq(ls, 2, Len(ls) - 1))
              ELSE CoerceSingleLine(EmptyStr)
         ELSE CoerceSingleLine(ls)

(***************************************************************************)
(* ToolCallParser.parse_response                                           *)
(***************************************************************************)
\* arguments[name] = value
SetArg(arguments, name, value) ==
    [n \in DOMAIN arguments \cup {name} |->
        IF n = name THEN value ELSE arguments[n]]

NoArgs == [n \in {} |-> StrValue(EmptyStr)]

\* the inner while loop: scans from line i for END_TOOL_CALL
RECURSIVE ParseArguments(_, _, _, _, _)
ParseArguments(lines, i, arguments, current_arg_name, current_arg_lines) ==
    IF i > Len(lines)
    THEN [closed |-> FALSE, end |-> i, arguments |-> arguments]
    ELSE LET line == lines[i] IN
         IF line.k = "ETC"
         THEN [closed |-> TRUE, end |-> i,
               arguments |->
                  IF current_arg_name \notin {NoName, ""} /\ current_arg_lines # <<>>
                  THEN SetArg(arguments, current_arg_name,
                              process_arg_value(current_arg_lines))
                  ELSE arguments]
         ELSE IF line.k = "EA"
         THEN IF current_arg_name # NoName
              THEN ParseArguments(lines, i + 1,
                       SetArg(arguments, current_arg_name,
                              process_arg_value(current_arg_lines)),
                       NoName, <<>>)
              ELSE ParseArguments(lines, i + 1, arguments,
                                  current_arg_name, current_arg_lines)
         ELSE IF line.k = "BA"
         THEN ParseArguments(lines, i + 1, arguments, line.a, <<>>)
         ELSE IF current_arg_name # NoName
              THEN ParseArguments(lines, i + 1, arguments, current_arg_name,
                                  Append(current_arg_lines, line))
              ELSE ParseArguments(lines, i + 1, arguments,
                                  current_arg_name, current_arg_lines)

\* the outer while loop: tool calls and the (start, end) spans to remove
RECURSIVE ParseCalls(_, _, _, _)
ParseCalls(lines, i, tool_calls, positions) ==
    IF i > Len(lines)
    THEN [tool_calls |-> tool_calls, positions |-> positions]
    ELSE LET line == lines[i] IN
         IF line.k = "BTC"
         THEN IF line.a = ""
              THEN ParseCalls(lines, i + 1, tool_calls, positions)
              ELSE LET r == ParseArguments(lines, i + 1, NoArgs, NoName, <<>>) IN
                   IF r.closed
                   THEN ParseCalls(lines, r.end + 1,
                            Append(tool_calls,
                                   [tool |-> line.a, arguments |-> r.arguments,
                                    raw |-> SubSeq(lines, i, r.end)]),
                            Append(positions, <<i, r.end>>))
                   ELSE ParseCalls(lines, r.end, tool_calls, positions)
         ELSE ParseCalls(lines, i + 1, tool_calls, positions)

\* mutant: everything from the first recorded span on is removed
RemoveSpans_FromFirstSpan(lines, positions) ==
    IF positions = <<>> THEN lines ELSE SubSeq(lines, 1, positions[1][1] - 1)

\* del cleaned_lines[start:end+1] for every recorded span
RemoveSpans(lines, positions) ==
    LET keep == {i \in 1..Len(lines) :
                    \A p \in 1..Len(positions) :
                        i < positions[p][1] \/ i > positions[p][2]}
        RECURSIVE Pick(_)
        Pick(i) == IF i > Len(lines) THEN <<>>
                   ELSE IF i \in keep THEN <<lines[i]>> \o Pick(i + 1)
                   ELSE Pick(i + 1)
    IN Pick(1)

\* str.strip() of a text given as lines: blank lines at both ends go
RECURSIVE StripLeft(_)
StripLeft(ls) ==
    IF ls = <<>> THEN <<>>
    ELSE IF ls[1] = Txt("") THEN StripLeft(Tail(ls)) ELSE ls

RECURSIVE StripRight(_)
StripRight(ls) ==
    IF ls = <<>> THEN <<>>
    ELSE IF Last(ls) = Txt("") THEN StripRight(SubSeq(ls, 1, Len(ls) - 1)) ELSE ls

Strip(ls) ==
    LET s == StripRight(StripLeft(ls)) IN IF s = <<>> THEN EmptyStr ELSE s

parse_response(response) ==
    LET r == ParseCalls(response, 1, <<>>, <<>>) IN
    [cleaned_response |-> Strip(RemoveSpans(response, r.positions)),
     tool_calls |-> r.tool_calls]

(***************************************************************************)
(* AgentRunner._parse_delegation and AgentRunner._is_finished              *)
(*   pattern  \[DELEGATE:\s*(\w+)\]\s*(.+?)(?=\[DELEGATE:|$)   (DOTALL)    *)
(***************************************************************************)
\* ids that \w+ does not match as a whole (they contain a hyphen)
HyphenIds == {"a-b"}
IsWordId(s) == s # "" /\ s \notin HyphenIds

\* a marker the pattern matches at: a \w+ id, then "]", then at least one
\* more character (the rest of the line, or the newline that follows it)
MatchesAt(response, i) ==
    /\ response[i].k = "DLG"
    /\ IsWordId(response[i].a)
    /\ (response[i].b # "" \/ i < Len(response))

\* where the lazy (.+?) stops: the next "[DELEGATE:" or the end of the text
NextMarker(response, i) ==
    LET later == {j \in (i + 1)..Len(response) : response[j].k = "DLG"} IN
    IF later = {} THEN Len(response) + 1
    ELSE CHOOSE j \in later : \A j2 \in later : j <= j2

parse_delegation(response) ==
    LET starts == {i \in 1..Len(response) : MatchesAt(response, i)} IN
    IF starts = {} THEN None
    ELSE LET i == CHOOSE i1 \in starts : \A i2 \in starts : i1 <= i2 IN
         [to_agent |-> response[i].a,
          task |-> Strip(<<Txt(response[i].b)>>
                         \o SubSeq(response, i + 1, NextMarker(response, i) - 1))]

is_finished_marker(response) ==
    \E i \in 1..Len(response) : response[i].k = "FIN"

(***************************************************************************)
(* Tool catalog: default tools and ToolExecutor.validate_arguments         *)
(***************************************************************************)
Param(n, req, dflt) == [name |-> n, required |-> req, has_default |-> dflt]

DefaultToolNames == {"read_file", "write_file", "http_request", "execute_shell"}
CustomToolNames == {"calc", "halt"}

Parameters(tool) ==
    CASE tool = "read_file" ->
            <<Param("file_path", TRUE, FALSE), Param("encoding", FALSE, TRUE)>>
      [] tool = "write_file" ->
            <<Param("file_path", TRUE, FALSE), Param("content", TRUE, FALSE),
              Param("mode", FALSE, TRUE), Param("encoding", FALSE, TRUE)>>
      [] tool = "http_request" ->
            <<Param("url", TRUE, FALSE), Param("method", FALSE, TRUE),
              Param("headers", FALSE, FALSE), Param("body", FALSE, FALSE),
              Param("timeout", FALSE, TRUE)>>
      [] tool = "execute_shell" ->
            <<Param("command", TRUE, FALSE), Param("timeout", FALSE, TRUE),
              Param("capture_output", FALSE, TRUE)>>
      [] tool = "halt" -> <<>>
      [] OTHER -> <<Param("x", TRUE, FALSE), Param("y", TRUE, TRUE),
                    Param("z", FALSE, FALSE)>>

\* mutant: a default does not excuse a required parameter
validate_arguments_IgnoresDefault(tool, arguments) ==
    LET ps == Parameters(tool) IN
    SelectSeq([i \in 1..Len(ps) |-> ps[i].name],
              LAMBDA n : \E i \in 1..Len(ps) :
                            /\ ps[i].name = n
                            /\ ps[i].required
                            /\ n \notin DOMAIN arguments)

\* names of the parameters that are required, absent and without default
validate_arguments(tool, arguments) ==
    LET ps == Parameters(tool) IN
    SelectSeq([i \in 1..Len(ps) |-> ps[i].name],
              LAMBDA n : \E i \in 1..Len(ps) :
                            /\ ps[i].name = n
                            /\ ps[i].required
                            /\ n \notin DOMAIN arguments
                            /\ ~ps[i].has_default)

(***************************************************************************)
(* Agents                                                                  *)
(***************************************************************************)
AgentIds == <<"A", "B", "C">>
AgentIdSet == {AgentIds[i] : i \in 1..Len(AgentIds)}

Agent(id) ==
    [id |-> id,
     name |-> CASE id = "A" -> "Alice" [] id = "B" -> "Bob" [] OTHER -> "Carol",
     tool_ids |-> IF id = "A" THEN {"calc", "halt"} ELSE {},
     max_retries |-> CASE id = "A" -> 1 [] id = "B" -> 0 [] OTHER -> 3]

\* mutant: every tool of the catalog is available to every agent
AvailableTools_WholeCatalog(agent, custom_tools) ==
    DefaultToolNames \cup custom_tools

\* available_tools: the defaults, plus the custom tools the agent declares
AvailableTools(agent, custom_tools) ==
    DefaultToolNames \cup
        {t \in custom_tools \cup DefaultToolNames :
            t \in agent.tool_ids /\ t \notin DefaultToolNames}

(***************************************************************************)
(* AgentRunner.run_agent: the tool-call loop of one response               *)
(***************************************************************************)
\* os.path.isabs(file_path) for a str file_path
AbsPaths == {"/abs.txt"}
IsAbs(value) == value.v[1].a \in AbsPaths

\* os.path.join(self.output_dir, file_path)
JoinOutputDir(value) ==
    [value EXCEPT !.v = <<[@[1] EXCEPT !.b = "output_dir"]>> \o Tail(@)]

HasFilePath(call) ==
    call.tool \in {"read_file", "write_file"} /\ "file_path" \in DOMAIN call.arguments

\* os.path.isabs raises TypeError unless file_path is a str
PathRaises(call) == HasFilePath(call) /\ call.arguments["file_path"].t # "str"

\* arguments after the file_path rewrite
RewritePath(call) ==
    IF HasFilePath(call) /\ ~IsAbs(call.arguments["file_path"])
    THEN [call EXCEPT !.arguments["file_path"] = JoinOutputDir(@)]
    ELSE call

(***************************************************************************)
(* FileSystem and the default tools bound to it; ToolExecutor.execute_tool *)
(***************************************************************************)
\* str(Path(file_path)): the key a path is stored under
PathKey(value) == value.v[1].a

NoFiles == [p \in {} |-> StrValue(EmptyStr)]

\* c + d for two str values: the last line of c runs on into the first of d
Concat(c, d) ==
    StrValue(SubSeq(c.v, 1, Len(c.v) - 1)
             \o <<[Last(c.v) EXCEPT !.a = @ \o d.v[1].a]>>
             \o Tail(d.v))

\* int, float and bool values add up under +=
IsNumber(value) == value.t \in {"int", "float", "bool"}

\* c + d for two numbers, kept as the two operands
Sum(c, d) ==
    [t |-> IF "float" \in {c.t, d.t} THEN "float" ELSE "int", v |-> c.v \o d.v]

\* func_args of execute_tool: the supplied value, else the declared default
ArgOrDefault(arguments, name, dflt) ==
    IF name \in DOMAIN arguments THEN arguments[name] ELSE StrValue(<<Txt(dflt)>>)

\* FileSystem.write_file under execute_tool's try/except:
\* success, and the files left behind
write_file(fs, arguments) ==
    LET key == PathKey(arguments["file_path"])
        content == arguments["content"]
        mode == ArgOrDefault(arguments, "mode", "w")
        is_w == mode = StrValue(<<Txt("w")>>)
        is_a == mode = StrValue(<<Txt("a")>>)
        stored == [p \in DOMAIN fs \cup {key} |-> IF p = key THEN content ELSE fs[p]]
    IN
    IF ~(is_w \/ is_a)
    THEN [success |-> FALSE, files |-> fs]                  \* ValueError
    ELSE IF is_a /\ key \in DOMAIN fs
    THEN IF fs[key].t = "str" /\ content.t = "str"
         THEN [success |-> TRUE,
               files |-> [fs EXCEPT ![key] = Concat(@, content)]]
         ELSE IF IsNumber(fs[key]) /\ IsNumber(content)
         THEN \* the sum is stored, then len(content) raises TypeError
              [success |-> FALSE, files |-> [fs EXCEPT ![key] = Sum(@, content)]]
         ELSE [success |-> FALSE, files |-> fs]             \* TypeError in +=
    ELSE \* the content is stored, then len(content) is taken
         [success |-> content.t = "str", files |-> stored]

\* FileSystem.read_file under execute_tool's try/except
\* f"Successfully read {len(content)} characters from {file_path}\n\n
\* Content:\n{content}": three lines, then the lines of the content
ReadMessage(key, content) ==
    StrValue(<<[k |-> "text", a |-> "Successfully read", b |-> key],
               Txt(""), Txt("Content:")>> \o content.v)

read_file(fs, arguments) ==
    LET key == PathKey(arguments["file_path"])
        ok == key \in DOMAIN fs /\ fs[key].t = "str"      \* len(content)
    IN
    [success |-> ok,
     files |-> fs,
     result |-> IF ok THEN ReadMessage(key, fs[key]) ELSE None]

\* the commands and URLs that do not answer within the timeout
SlowTargets == {"sleep 60", "http://slow.example"}

\* subprocess.run raises TimeoutExpired, requests.request raises Timeout
TimesOut(tool, arguments) ==
    \/ tool = "execute_shell" /\ PathKey(arguments["command"]) \in SlowTargets
    \/ tool = "http_request" /\ PathKey(arguments["url"]) \in SlowTargets

\* http_request and execute_shell: every Exception, the timeout among
\* them, is caught inside the function, which then returns a text
\* starting with "Error"; the function itself never raises
outside_tool(tool, fs, arguments) ==
    [success |-> TRUE, files |-> fs]

\* a custom tool's function: fails unless x is a number
custom_tool(fs, arguments) ==
    [success |-> arguments["x"].t \in {"int", "float"}, files |-> fs]

\* a custom tool's function that calls sys.exit(): SystemExit is no Exception
ExitingTools == {"halt"}

\* try: exec the code, call the function; except Exception: structured
\* failure.  raised: an exception that is no Exception left execute_tool
execute_tool(tool, fs, arguments) ==
    IF tool \in ExitingTools
    THEN [raised |-> TRUE, success |-> FALSE, error |-> FALSE, files |-> fs]
    ELSE LET r == CASE tool = "read_file" -> read_file(fs, arguments)
                    [] tool = "write_file" -> write_file(fs, arguments)
                    [] tool \in {"http_request", "execute_shell"} ->
                          outside_tool(tool, fs, arguments)
                    [] OTHER -> custom_tool(fs, arguments)
         IN [raised |-> FALSE, success |-> r.success, error |-> ~r.success,
             files |-> r.files]

\* one result per handled call, in order.
\* raised: an exception left the loop at some call
RECURSIVE RunToolCalls(_, _, _, _, _, _)
RunToolCalls(tool_calls, available_tools, fs, k, tool_results, calls_seen) ==
    IF k > Len(tool_calls)
    THEN [raised |-> FALSE, exc |-> "none", tool_results |-> tool_results,
          tool_calls |-> calls_seen, files |-> fs]
    ELSE LET call == tool_calls[k] IN
         IF call.tool \notin available_tools
         THEN RunToolCalls(tool_calls, available_tools, fs, k + 1,
                  Append(tool_results,
                         [tool |-> call.tool, kind |-> "not_found", success |-> FALSE]),
                  Append(calls_seen, call))
         ELSE IF PathRaises(call)
         THEN [raised |-> TRUE, exc |-> "TypeError", tool_results |-> tool_results,
               tool_calls |-> calls_seen, files |-> fs]
         ELSE LET c2 == RewritePath(call) IN
              IF validate_arguments(c2.tool, c2.arguments) # <<>>
              THEN RunToolCalls(tool_calls, available_tools, fs, k + 1,
                       Append(tool_results,
                              [tool |-> c2.tool, kind |-> "invalid", success |-> FALSE,
                               missing |-> validate_arguments(c2.tool, c2.arguments)]),
                       Append(calls_seen, c2))
              ELSE LET ex == execute_tool(c2.tool, fs, c2.arguments) IN
                   IF ex.raised
                   THEN [raised |-> TRUE, exc |-> "SystemExit",
                         tool_results |-> tool_results,
                         tool_calls |-> calls_seen, files |-> ex.files]
                   ELSE
                   RunToolCalls(tool_calls, available_tools, ex.files, k + 1,
                       Append(tool_results,
                              [tool |-> c2.tool, kind |-> "executed",
                               success |-> ex.success, error |-> ex.error]),
                       Append(calls_seen, c2))

(***************************************************************************)
(* AgentRunner.run_agent: messages and result                              *)
(***************************************************************************)
Msg(role, kind, body) == [role |-> role, content |-> [kind |-> kind, body |-> body]]

SystemMsg == Msg("system", "system_prompt", <<>>)
\* _build_task_message(task, chat_history)
TaskMsg(task) == Msg("user", "task_message", task)
AssistantMsg(response) == Msg("assistant", "response", response)
\* _format_tool_results_with_directory(tool_results)
ToolResultsMsg(tool_results) == Msg("user", "tool_results", tool_results)
\* _build_continue_prompt()
ContinueMsg == Msg("user", "continue_prompt", <<>>)

NoResponse == [kind |-> "No response", body |-> <<>>]

\* messages[-2]["content"] if len(messages) > 2 else "No response"
final_response(msgs) ==
    IF Len(msgs) > 2 THEN msgs[Len(msgs) - 1].content ELSE NoResponse

AgentResult(agent, msgs, hist, iter, deleg, fin) ==
    [agent_id |-> agent.id,
     agent_name |-> agent.name,
     final_response |-> final_response(msgs),
     history |-> hist,
     messages |-> Tail(msgs),
     iterations |-> iter,
     delegation |-> deleg,
     finished |-> fin]

(***************************************************************************)
(* Team                                                                    *)
(***************************************************************************)
Edge(f, t) == [from_agent |-> f, to_agent |-> t]

MkTeam(ids, es, ep) ==
    [id |-> "team1", name |-> "Team", agent_ids |-> ids,
     edges |-> es, entry_point |-> ep]

\* the teams the walker is run on: (agent_ids, edges in order, entry point)
Teams ==
    {MkTeam(<<"A">>, <<>>, "A"),
     MkTeam(<<"A">>, <<Edge("A", "A")>>, "A"),
     MkTeam(<<"A", "B">>, <<Edge("B", "A")>>, "B"),
     MkTeam(<<"A", "B">>, <<Edge("A", "B")>>, "A"),
     MkTeam(<<"A", "B">>, <<Edge("A", "B"), Edge("B", "A")>>, "A"),
     MkTeam(<<"A", "B">>, <<Edge("A", "B"), Edge("A", "B")>>, "A"),
     MkTeam(AgentIds, <<Edge("A", "B"), Edge("A", "C")>>, "A"),
     MkTeam(AgentIds, <<Edge("A", "C"), Edge("A", "B")>>, "A"),
     MkTeam(AgentIds, <<Edge("A", "B"), Edge("B", "C"), Edge("C", "A")>>, "A")}

\* teams run_team must refuse: entry point outside agent_ids, an edge endpoint
\* outside agent_ids, an id in agent_ids ("D") that has no agent
InvalidTeams ==
    {MkTeam(<<"A">>, <<>>, "Z"),
     MkTeam(<<"A", "B">>, <<Edge("A", "B"), Edge("A", "Z")>>, "A"),
     MkTeam(<<"A", "B">>, <<Edge("Z", "A")>>, "A"),
     MkTeam(<<"A", "D">>, <<Edge("A", "D")>>, "A")}

\* Team.get_neighbors
get_neighbors(t, agent_id) ==
    LET from_here == SelectSeq(t.edges, LAMBDA e : e.from_agent = agent_id)
    IN [i \in 1..Len(from_here) |-> from_here[i].to_agent]

\* Team.validate: TRUE, or raises ValueError (FALSE)
validate(t) ==
    /\ t.entry_point \in {t.agent_ids[i] : i \in 1..Len(t.agent_ids)}
    /\ \A i \in 1..Len(t.edges) :
          /\ t.edges[i].from_agent \in {t.agent_ids[j] : j \in 1..Len(t.agent_ids)}
          /\ t.edges[i].to_agent \in {t.agent_ids[j] : j \in 1..Len(t.agent_ids)}

\* mutant: the edges are popped off the list while they are checked
AfterValidate_PopsEdges(t) == [t EXCEPT !.edges = <<>>]

\* the team after validate() returned: validate assigns to no field
AfterValidate(t) == t

\* mutant: every id is taken to have an agent
AgentsExist_Unchecked(t) == TRUE

\* for agent_id in team.agent_ids: agent_id in agents
AgentsExist(t) == \A i \in 1..Len(t.agent_ids) : t.agent_ids[i] \in AgentIdSet

InSeq(x, seq) == \E i \in 1..Len(seq) : seq[i] = x

(***************************************************************************)
(* Model responses                                                         *)
(***************************************************************************)
InitialTask == <<Txt("t0")>>

WriteCall ==
    <<BTC("write_file"), BA("file_path"), Txt("out.txt"), EA,
      BA("content"), Txt("x"), EA, ETC>>
\* a file_path the parser coerces to an integer
NumericPathCall == <<BTC("read_file"), BA("file_path"), Txt("42"), EA, ETC>>

ReadMissingCall == <<BTC("read_file"), BA("file_path"), Txt("missing.txt"), EA, ETC>>
UnknownToolCall == <<BTC("nope"), BA("x"), Txt("42"), EA, ETC>>
MissingArgCall == <<BTC("write_file"), BA("file_path"), Txt("out.txt"), EA, ETC>>
CalcCall == <<BTC("calc"), BA("x"), Txt("42"), EA, ETC>>
NoArgCall == <<BTC("write_file"), ETC>>
CalcMissingCall == <<BTC("calc"), BA("z"), Txt("0"), EA, ETC>>
\* the same argument name in two argument blocks
DupArgCall ==
    <<BTC("calc"), BA("x"), Txt("42"), EA, BA("x"), Txt("0"), EA, ETC>>
\* a content of three lines, the middle one blank
MultiLineCall ==
    <<BTC("write_file"), BA("file_path"), Txt("out.txt"), EA,
      BA("content"), Txt("a"), Txt(""), Txt("b"), EA, ETC>>
\* the same content between two triple-quote-only lines
QuotedCall ==
    <<BTC("write_file"), BA("file_path"), Txt("out.txt"), EA,
      BA("content"), Txt("QQQ"), Txt("a"), Txt(""), Txt("b"), Txt("QQQ"), EA, ETC>>
\* an integer literal between two triple-quote-only lines
QuotedNumberCall ==
    <<BTC("calc"), BA("x"), Txt("QQQ"), Txt("42"), Txt("QQQ"), EA, ETC>>
\* the shape of the prompt's Example 3: no END_ARG lines
NoEndArgCall ==
    <<BTC("write_file"), BA("file_path"), Txt("out.txt"),
      BA("content"), Txt("a"), Txt(""), Txt("b"), ETC>>
\* one single-line body of each kind the parser tells apart
TypedArgsCall ==
    <<BTC("calc"), BA("x"), Txt("3.14"), EA, BA("y"), Txt("True"), EA,
      BA("z"), Txt("NULL"), EA, BA("w"), Txt("hello"), EA, ETC>>
ShellTimeoutCall == <<BTC("execute_shell"), BA("command"), Txt("sleep 60"), EA, ETC>>
HttpTimeoutCall ==
    <<BTC("http_request"), BA("url"), Txt("http://slow.example"), EA, ETC>>
ShellCall == <<BTC("execute_shell"), BA("command"), Txt("ls"), EA, ETC>>
HaltCall == <<BTC("halt"), ETC>>
UnterminatedCall == <<BTC("read_file"), BA("file_path"), Txt("out.txt")>>

\* what an agent run on its own may answer
AgentResponses ==
    {<<Txt("hello")>>,
     <<Txt("done"), FIN>>,
     <<DLG("B", "t1")>>,
     <<DLG("B", "")>>,
     <<DLG("B", ""), Txt("")>>,
     <<DLG("B", ""), Txt("t1"), Txt("t2")>>,
     <<DLG("a-b", "t1")>>,
     <<DLG("a-b", "t1"), DLG("B", "t2")>>,
     <<DLG("B", "t1"), FIN>>,
     <<DLG("a-b", "t1"), FIN>>,
     <<FIN, DLG("B", ""), Txt("")>>,
     <<Txt("hello"), DLG("B", "t1"), DLG("C", "t2")>>,
     WriteCall,
     NumericPathCall,
     ReadMissingCall,
     UnknownToolCall,
     MissingArgCall,
     CalcCall,
     NoArgCall,
     CalcMissingCall,
     HaltCall,
     DupArgCall,
     TypedArgsCall,
     MultiLineCall,
     QuotedCall,
     QuotedNumberCall,
     NoEndArgCall,
     NumericPathCall \o WriteCall,
     UnterminatedCall,
     UnterminatedCall \o WriteCall,
     WriteCall \o UnterminatedCall,
     WriteCall \o <<FIN>>,
     WriteCall \o <<DLG("B", "t1")>>,
     WriteCall \o ReadMissingCall,
     ReadMissingCall \o <<FIN>>,
     ShellTimeoutCall,
     HttpTimeoutCall,
     ShellCall,
     ReadMissingCall \o <<DLG("B", "t1")>>}

\* what the agents of a team may answer
TeamResponses ==
    {<<Txt("hello")>>,
     <<Txt("done"), FIN>>,
     WriteCall,
     NumericPathCall}
    \cup {<<DLG(to, "t1")>> : to \in AgentIdSet \cup {"Z"}}

\* what run_agent reads off a response: parse_response, _parse_delegation
\* and _is_finished, worked out once per response
Readings ==
    [r \in TeamResponses \cup AgentResponses |->
        [tool_calls |-> parse_response(r).tool_calls,
         delegation |-> parse_delegation(r),
         finished |-> is_finished_marker(r)]]

(***************************************************************************)
(* TeamRunner.run_team                                                     *)
(***************************************************************************)
\* agent_outputs[agent_id] = final_response, later entries overwriting
\* mutant: only the agent of the last round gets an output
AgentOutputs_LastOnly(eh) ==
    [id \in {eh[i].agent_id : i \in {Len(eh)} \cap (1..Len(eh))} |->
        eh[Len(eh)].result.final_response]

AgentOutputs(eh) ==
    [id \in {eh[i].agent_id : i \in 1..Len(eh)} |->
        LET last == CHOOSE i \in 1..Len(eh) :
                        /\ eh[i].agent_id = id
                        /\ \A j \in 1..Len(eh) : eh[j].agent_id = id => j <= i
        IN eh[last].result.final_response]

\* "rounds": round_num + 1
Rounds(rn) == rn + 1

TeamResult(eh, ch, rn) ==
    [team_id |-> team.id,
     team_name |-> team.name,
     execution_history |-> eh,
     chat_history |-> ch,
     agent_outputs |-> AgentOutputs(eh),
     rounds |-> Rounds(rn)]

TypeOK ==
    /\ pc \in {"start", "loop", "turn", "post", "returned", "raised", "saved", "done"}
    /\ max_rounds \in 0..MaxRounds
    /\ rounds_left \in 0..max_rounds
    /\ model_calls \in 0..max_iterations
    /\ iteration \in 0..max_iterations

\* run_team or run_agent called directly: no application object, no record
NoCaller ==
    /\ caller = "none"
    /\ run_no = 1
    /\ run_doc = None
    /\ judge_result = None

\* the state run_team starts from
InitWalk ==
    /\ pc = "start"
    /\ team \in Teams \cup InvalidTeams
    /\ max_rounds \in 0..MaxRounds
    /\ max_iterations = MaxIterations
    /\ tools = {}
    /\ files = NoFiles
    /\ chat_history = <<>>
    /\ execution_history = <<>>
    /\ current_agent_id = team.entry_point
    /\ current_task = InitialTask
    /\ visited_agents = {}
    /\ round_num = 0
    /\ rounds_left = max_rounds
    /\ available_agents = <<>>
    /\ messages = <<>>
    /\ history = <<>>
    /\ iteration = 0
    /\ delegation = None
    /\ is_finished = FALSE
    /\ result = None
    /\ model_calls = 0
    /\ ret = None
    /\ stop_cause = "none"

Init == InitWalk /\ NoCaller

\* team.validate() and the check that every agent exists have passed
StartWalk ==
    /\ pc = "start"
    /\ validate(team)
    /\ AgentsExist(team)
    /\ team' = AfterValidate(team)
    /\ pc' = "loop"
    /\ UNCHANGED <<files, max_rounds, max_iterations, tools, svc_vars, walk_vars,
                   available_agents, turn_vars>>

\* team.validate() or the agent check raises ValueError
ConfigError ==
    /\ pc = "start"
    /\ ~(validate(team) /\ AgentsExist(team))
    /\ pc' = "raised"
    /\ stop_cause' = "config_error"
    /\ UNCHANGED <<files, conf_vars, chat_history, execution_history, current_agent_id,
                   current_task, visited_agents, round_num, rounds_left, ret,
                   available_agents, turn_vars>>

\* the walk is over: build agent_outputs and return
Return(cause, eh, ch, rn) ==
    /\ pc' = "returned"
    /\ stop_cause' = cause
    /\ ret' = TeamResult(eh, ch, rn)

\* mutant: the for loop never runs out of rounds
RangeHasNext_Unbounded(left) == TRUE

\* for round_num in range(max_rounds): there is a next round
RangeHasNext(left) == left > 0

\* range(max_rounds) is exhausted: the for loop ends
RangeExhausted ==
    /\ pc = "loop"
    /\ ~RangeHasNext(rounds_left)
    /\ Return("max_rounds", execution_history, chat_history, round_num)
    /\ UNCHANGED <<files, conf_vars, chat_history, execution_history, current_agent_id,
                   current_task, visited_agents, round_num, rounds_left,
                   available_agents, turn_vars>>

\* mutant: the cycle check is missing
AlreadyVisited_Never(agent_id, visited) == FALSE

\* the guard of the cycle check
AlreadyVisited(agent_id, visited) == agent_id \in visited

\* next round, but the selected agent stops the walk before it runs
CycleBreak ==
    /\ pc = "loop"
    /\ RangeHasNext(rounds_left)
    /\ current_agent_id = NoName \/ AlreadyVisited(current_agent_id, visited_agents)
    /\ round_num' = max_rounds - rounds_left
    /\ rounds_left' = rounds_left - 1
    /\ Return(IF current_agent_id = NoName THEN "no_agent" ELSE "cycle",
              execution_history, chat_history, round_num')
    /\ UNCHANGED <<files, conf_vars, chat_history, execution_history, current_agent_id,
                   current_task, visited_agents, available_agents, turn_vars>>

\* next round: mark the agent visited and enter run_agent
BeginTurn ==
    /\ pc = "loop"
    /\ RangeHasNext(rounds_left)
    /\ current_agent_id # NoName
    /\ ~AlreadyVisited(current_agent_id, visited_agents)
    /\ round_num' = max_rounds - rounds_left
    /\ rounds_left' = rounds_left - 1
    /\ visited_agents' = visited_agents \cup {current_agent_id}
    /\ available_agents' = get_neighbors(team, current_agent_id)
    /\ messages' = <<SystemMsg, TaskMsg(current_task)>>
    /\ history' = <<>>
    /\ iteration' = 0
    /\ delegation' = None
    /\ is_finished' = FALSE
    /\ model_calls' = 0
    /\ pc' = "turn"
    /\ UNCHANGED <<files, conf_vars, chat_history, execution_history, current_agent_id,
                   current_task, result, ret, stop_cause>>

(***************************************************************************)
(* AgentRunner.run_agent: one pass of the while loop per action            *)
(***************************************************************************)
\* while iteration < max_iterations
LoopContinues(iter, cap) == iter < cap

\* iteration += 1; response = self.llm_client.generate(...)
ModelCall ==
    /\ pc = "turn"
    /\ LoopContinues(iteration, max_iterations)
    /\ iteration' = iteration + 1
    /\ model_calls' = model_calls + 1

HistoryEntry(iter, response, calls, fin) ==
    [iteration |-> iter, response |-> response, tool_calls |-> calls, finished |-> fin]

\* all(r.get("result", {}).get("success", False) for r in tool_results)
all_success(tool_results) ==
    \A i \in 1..Len(tool_results) : tool_results[i].success

\* mutant: the retry test is missing, a response with a failed tool falls
\* through to the marker checks
AfterTools_FallsThrough(tool_results, iter, agent) ==
    IF ~all_success(tool_results) /\ iter <= agent.max_retries
    THEN "check"
    ELSE "continue"

\* if not all_success and iteration <= agent.max_retries: continue
\* continue
AfterTools(tool_results, iter, agent) ==
    IF ~all_success(tool_results) /\ iter <= agent.max_retries
    THEN "continue"
    ELSE "continue"

\* the response has tool calls: run them, report the results, next iteration
\* (with or without a failed tool, and whatever agent.max_retries is, the
\* code continues with the next iteration)
IterToolCalls(R) ==
    \E response \in R :
      /\ ModelCall
      /\ Readings[response].tool_calls # <<>>
      /\ \E run \in {RunToolCalls(Readings[response].tool_calls,
                                  AvailableTools(Agent(current_agent_id), tools),
                                  files, 1, <<>>, <<>>)} :
           LET msgs == messages \o <<AssistantMsg(response),
                                      ToolResultsMsg(run.tool_results)>>
               \* both branches of the code are "continue": the markers of
               \* the response are never looked at
               ends == /\ AfterTools(run.tool_results, iteration + 1,
                                     Agent(current_agent_id)) # "continue"
                       /\ Readings[response].finished
               hist == Append(history,
                              HistoryEntry(iteration + 1, response, run.tool_calls, ends))
           IN
           /\ ~run.raised
           /\ files' = run.files
           /\ messages' = msgs
           /\ history' = hist
           /\ is_finished' = ends
           /\ pc' = IF ends THEN "post" ELSE pc
           /\ result' = IF ends
                        THEN AgentResult(Agent(current_agent_id), msgs, hist,
                                         iteration + 1, None, TRUE)
                        ELSE result
           /\ UNCHANGED <<conf_vars, walk_vars, available_agents, delegation>>

\* os.path.isabs or a tool raises inside the tool loop: run_agent (and
\* run_team) raise
IterToolRaise(R) ==
    \E response \in R :
      /\ ModelCall
      /\ Readings[response].tool_calls # <<>>
      /\ \E run \in {RunToolCalls(Readings[response].tool_calls,
                                  AvailableTools(Agent(current_agent_id), tools),
                                  files, 1, <<>>, <<>>)} :
           /\ run.raised
           /\ files' = run.files
           /\ pc' = "raised"
           /\ stop_cause' = run.exc
           /\ UNCHANGED <<conf_vars, chat_history, execution_history, current_agent_id,
                          current_task, visited_agents, round_num, rounds_left, ret,
                          available_agents, messages, history, delegation, is_finished,
                          result>>

\* self.llm_client.generate raises (RuntimeError from the client): nothing
\* in run_agent or run_team catches it
IterModelFails ==
    /\ ModelCall
    /\ pc' = "raised"
    /\ stop_cause' = "RuntimeError"
    /\ UNCHANGED <<files, conf_vars, chat_history, execution_history, current_agent_id,
                   current_task, visited_agents, round_num, rounds_left, ret,
                   available_agents, messages, history, delegation, is_finished,
                   result>>

\* no tool calls, a delegation: record it, break, return
IterDelegate(R) ==
    \E response \in R :
      LET d == Readings[response].delegation
          msgs == Append(messages, AssistantMsg(response))
          hist == Append(history,
                         [iteration |-> iteration + 1, response |-> response,
                          tool_calls |-> <<>>, delegation |-> d, finished |-> FALSE])
      IN
      /\ ModelCall
      /\ Readings[response].tool_calls = <<>>
      /\ d # None
      /\ delegation' = d
      /\ messages' = msgs
      /\ history' = hist
      /\ result' = AgentResult(Agent(current_agent_id), msgs, hist, iteration + 1, d,
                               is_finished)
      /\ pc' = "post"
      /\ UNCHANGED <<files, conf_vars, walk_vars, available_agents, is_finished>>

\* no tool calls, no delegation, <FINISHED>: break, return
IterFinished(R) ==
    \E response \in R :
      LET msgs == Append(messages, AssistantMsg(response))
          hist == Append(history, HistoryEntry(iteration + 1, response, <<>>, TRUE))
      IN
      /\ ModelCall
      /\ Readings[response].tool_calls = <<>>
      /\ Readings[response].delegation = None
      /\ Readings[response].finished
      /\ delegation' = None
      /\ is_finished' = TRUE
      /\ messages' = msgs
      /\ history' = hist
      /\ result' = AgentResult(Agent(current_agent_id), msgs, hist, iteration + 1, None,
                               TRUE)
      /\ pc' = "post"
      /\ UNCHANGED <<files, conf_vars, walk_vars, available_agents>>

\* neither: append the continue prompt, next iteration
IterContinue(R) ==
    \E response \in R :
      /\ ModelCall
      /\ Readings[response].tool_calls = <<>>
      /\ Readings[response].delegation = None
      /\ ~Readings[response].finished
      /\ delegation' = None
      /\ is_finished' = FALSE
      /\ messages' = messages \o <<AssistantMsg(response), ContinueMsg>>
      /\ history' = Append(history, HistoryEntry(iteration + 1, response, <<>>, FALSE))
      /\ UNCHANGED <<files, pc, conf_vars, walk_vars, available_agents, result>>

\* the while condition fails: return
TurnCap ==
    /\ pc = "turn"
    /\ ~LoopContinues(iteration, max_iterations)
    /\ result' = AgentResult(Agent(current_agent_id), messages, history, iteration,
                             delegation, is_finished)
    /\ pc' = "post"
    /\ UNCHANGED <<files, conf_vars, walk_vars, available_agents, messages, history,
                   iteration, delegation, is_finished, model_calls>>

(***************************************************************************)
(* TeamRunner.run_team: after run_agent has returned                       *)
(***************************************************************************)
\* chat_history.append(...) for msg in result["messages"]
TaggedMessages(agent, msgs) ==
    [i \in 1..Len(msgs) |->
        [agent_id |-> agent.id, agent_name |-> agent.name,
         role |-> msgs[i].role, content |-> msgs[i].content]]

ChatAfter == chat_history \o TaggedMessages(Agent(current_agent_id), result.messages)

HistoryAfter ==
    Append(execution_history,
           [round |-> round_num, agent_id |-> current_agent_id,
            agent_name |-> Agent(current_agent_id).name,
            task |-> current_task, result |-> result])

\* mutant: the target of a delegation is not checked
ValidDelegation_Unchecked(to, neighbors) == TRUE

\* the two checks on a delegation's target
ValidDelegation(to, neighbors) == InSeq(to, neighbors) /\ to \in AgentIdSet

\* mutant: visited neighbours are not filtered out
Unvisited_Unfiltered(neighbors, visited) == neighbors

\* unvisited_neighbors
Unvisited(neighbors, visited) == SelectSeq(neighbors, LAMBDA aid : aid \notin visited)

\* mutant: the delegated agent is handed the initial task again
NextAfterDelegation_InitialTask(d) == [agent_id |-> d.to_agent, task |-> InitialTask]

\* the agent and the task of the next round after a valid delegation
NextAfterDelegation(d) == [agent_id |-> d.to_agent, task |-> d.task]

PostInvalidDelegation ==
    /\ pc = "post"
    /\ result.delegation # None
    /\ ~ValidDelegation(result.delegation.to_agent, available_agents)
    /\ chat_history' = ChatAfter
    /\ execution_history' = HistoryAfter
    /\ Return("invalid_delegation", HistoryAfter, ChatAfter, round_num)
    /\ UNCHANGED <<files, conf_vars, current_agent_id, current_task, visited_agents,
                   round_num, rounds_left, available_agents, turn_vars>>

PostDelegate ==
    /\ pc = "post"
    /\ result.delegation # None
    /\ ValidDelegation(result.delegation.to_agent, available_agents)
    /\ chat_history' = ChatAfter
    /\ execution_history' = HistoryAfter
    /\ current_agent_id' = NextAfterDelegation(result.delegation).agent_id
    /\ current_task' = NextAfterDelegation(result.delegation).task
    /\ pc' = "loop"
    /\ UNCHANGED <<files, conf_vars, visited_agents, round_num, rounds_left, ret,
                   stop_cause, available_agents, turn_vars>>

PostAutoDelegate ==
    /\ pc = "post"
    /\ result.delegation = None
    /\ Unvisited(available_agents, visited_agents) # <<>>
    /\ chat_history' = ChatAfter
    /\ execution_history' = HistoryAfter
    /\ current_agent_id' = Unvisited(available_agents, visited_agents)[1]
    /\ current_task' = <<CONT(Agent(current_agent_id).name,
                              result.final_response.kind)>>
    /\ pc' = "loop"
    /\ UNCHANGED <<files, conf_vars, visited_agents, round_num, rounds_left, ret,
                   stop_cause, available_agents, turn_vars>>

PostCompleted ==
    /\ pc = "post"
    /\ result.delegation = None
    /\ Unvisited(available_agents, visited_agents) = <<>>
    /\ chat_history' = ChatAfter
    /\ execution_history' = HistoryAfter
    /\ Return("completed", HistoryAfter, ChatAfter, round_num)
    /\ UNCHANGED <<files, conf_vars, current_agent_id, current_task, visited_agents,
                   round_num, rounds_left, available_agents, turn_vars>>

Next ==
    \/ StartWalk
    \/ ConfigError
    \/ RangeExhausted
    \/ CycleBreak
    \/ BeginTurn
    \/ TurnCap
    \/ IterContinue(TeamResponses)
    \/ IterFinished(TeamResponses)
    \/ IterDelegate(TeamResponses)
    \/ IterToolCalls(TeamResponses)
    \/ IterToolRaise(TeamResponses)
    \/ IterModelFails
    \/ PostInvalidDelegation
    \/ PostDelegate
    \/ PostAutoDelegate
    \/ PostCompleted

Spec == Init /\ [][Next]_vars

\* run_team is sequential code: it keeps taking steps until it returns
FairSpec == Spec /\ WF_vars(Next)

(***************************************************************************)
(* run_agent called on its own, with any iteration cap                     *)
(***************************************************************************)
InitAgent ==
    /\ NoCaller
    /\ pc = "turn"
    /\ team = MkTeam(<<"A", "B">>, <<Edge("A", "B"), Edge("B", "A")>>, "A")
    /\ max_rounds = 0
    /\ max_iterations \in 0..MaxIterations
    /\ tools \in {{}, CustomToolNames}
    /\ files = NoFiles
    /\ chat_history = <<>>
    /\ execution_history = <<>>
    /\ current_agent_id \in {"A", "B"}
    /\ current_task = InitialTask
    /\ visited_agents = {}
    /\ round_num = 0
    /\ rounds_left = 0
    /\ available_agents = get_neighbors(team, current_agent_id)
    /\ messages = <<SystemMsg, TaskMsg(current_task)>>
    /\ history = <<>>
    /\ iteration = 0
    /\ delegation = None
    /\ is_finished = FALSE
    /\ result = None
    /\ model_calls = 0
    /\ ret = None
    /\ stop_cause = "none"

NextAgent ==
    \/ IterToolCalls(AgentResponses)
    \/ IterToolRaise(AgentResponses)
    \/ IterModelFails
    \/ IterDelegate(AgentResponses)
    \/ IterFinished(AgentResponses)
    \/ IterContinue(AgentResponses)
    \/ TurnCap

SpecAgent == InitAgent /\ [][NextAgent]_vars

(***************************************************************************)
(* OneShotJudge                                                            *)
(***************************************************************************)
\* A judge response is a sequence of tokens.  A number is a maximal run
\* \d+(\.\d+)? and carries its value in tenths; sp is a run of blanks, nl
\* a run of whitespace with a line break in it.
JS == [k |-> "Score:", v |-> 0]
JN(tenths) == [k |-> "num", v |-> tenths]
J10 == [k |-> "/10", v |-> 0]
JSP == [k |-> "sp", v |-> 0]
JNL == [k |-> "nl", v |-> 0]
JW == [k |-> "word", v |-> 0]
JR == [k |-> "Reasoning:", v |-> 0]

IsSpace(tok) == tok.k \in {"sp", "nl"}

\* \s* from token i on: the index of the first token that is no whitespace
RECURSIVE SkipSpace(_, _)
SkipSpace(r, i) ==
    IF i <= Len(r) /\ IsSpace(r[i]) THEN SkipSpace(r, i + 1) ELSE i

IsKind(r, i, kind) == i >= 1 /\ i <= Len(r) /\ r[i].k = kind

\* the four patterns of _parse_evaluation, tried at token i; the result is
\* the index of the number matched, 0 for no match at i
PatternAt(n, r, i) ==
    LET j == SkipSpace(r, i + 1) IN
    CASE n = 1 -> IF /\ IsKind(r, i, "Score:") /\ IsKind(r, j, "num")
                     /\ IsKind(r, SkipSpace(r, j + 1), "/10")
                  THEN j ELSE 0
      [] n = 2 -> IF /\ IsKind(r, i, "Score:") /\ IsKind(r, j, "num")
                     /\ IsKind(r, j + 1, "/10")
                  THEN j ELSE 0
      [] n = 3 -> IF IsKind(r, i, "Score:") /\ IsKind(r, j, "num") THEN j ELSE 0
      [] OTHER -> IF IsKind(r, i, "num") /\ IsKind(r, j, "/10") THEN i ELSE 0

\* re.search(pattern, response): the leftmost match, 0 for none
Search(n, r) ==
    LET hits == {i \in 1..Len(r) : PatternAt(n, r, i) # 0} IN
    IF hits = {} THEN 0
    ELSE PatternAt(n, r, CHOOSE i \in hits : \A i2 \in hits : i <= i2)

\* for pattern in patterns: ... break at the first that matches
RECURSIVE FirstMatch(_, _)
FirstMatch(n, r) ==
    IF n > 4 THEN 0
    ELSE IF Search(n, r) # 0 THEN Search(n, r)
    ELSE FirstMatch(n + 1, r)

\* text.strip() on tokens
RECURSIVE StripTokens(_)
StripTokens(r) ==
    IF r = <<>> THEN r
    ELSE IF IsSpace(r[1]) THEN StripTokens(Tail(r))
    ELSE IF IsSpace(r[Len(r)]) THEN StripTokens(SubSeq(r, 1, Len(r) - 1))
    ELSE r

\* Reasoning:\s*(.+) with DOTALL, else everything after the first line
Reasoning(r) ==
    LET marks == {i \in 1..(Len(r) - 1) : r[i].k = "Reasoning:"}
        breaks == {i \in 1..Len(r) : r[i].k = "nl"}
    IN
    IF marks # {}
    THEN StripTokens(SubSeq(r, (CHOOSE i \in marks : \A i2 \in marks : i <= i2) + 1,
                            Len(r)))
    ELSE IF breaks # {}
    THEN StripTokens(SubSeq(r, (CHOOSE i \in breaks : \A i2 \in breaks : i <= i2) + 1,
                            Len(r)))
    ELSE StripTokens(r)

\* 0 <= score <= 10, the score in tenths
InRange(tenths) == 0 <= tenths /\ tenths <= 100

\* mutant: an out-of-range score is clamped to the scale
parse_evaluation_Clamped(response) ==
    LET m == FirstMatch(1, response) IN
    IF m = 0
    THEN [raised |-> TRUE, error |-> "ValueError: could not parse score",
          score |-> None, reasoning |-> None]
    ELSE [raised |-> FALSE, error |-> "none",
          score |-> IF response[m].v > 100 THEN 100 ELSE response[m].v,
          reasoning |-> Reasoning(response)]

\* _parse_evaluation: (score, reasoning), or ValueError
parse_evaluation(response) ==
    LET m == FirstMatch(1, response) IN
    IF m = 0
    THEN [raised |-> TRUE, error |-> "ValueError: could not parse score",
          score |-> None, reasoning |-> None]
    ELSE IF ~InRange(response[m].v)
    THEN [raised |-> TRUE, error |-> "ValueError: score out of range",
          score |-> None, reasoning |-> None]
    ELSE [raised |-> FALSE, error |-> "none", score |-> response[m].v,
          reasoning |-> Reasoning(response)]

\* judge answers the service layer is run on
JudgeResponses ==
    {<<JS, JSP, JN(75), J10, JNL, JR, JSP, JW, JSP, JW>>,   \* Score: 7.5/10\nReasoning: ..
     <<JN(120), J10>>,                                       \* 12/10
     <<JW, JSP, JW>>}                                        \* no score at all

\* the tokens a judge answer is made of; scores 0, 7.5, 10, 10.5 and 12
JudgeTokens == {JS, J10, JSP, JNL, JW, JR} \cup {JN(t) : t \in {0, 75, 100, 105, 120}}

MaxTokens == 3          \* length of the judge answers judge_team is tried on

\* every answer of at most MaxTokens tokens, and some longer ones
AllJudgeResponses ==
    UNION {[1..n -> JudgeTokens] : n \in 0..MaxTokens}
    \cup JudgeResponses
    \cup {<<JS, JSP, JW, JN(30), J10>>,                      \* Score: -3/10
          <<JS, JN(0), J10, JNL, JW>>,                       \* Score:0/10\n..
          <<JS, JSP, JN(105), J10, JSP, JR>>,                \* Score: 10.5/10 Reasoning:
          <<JW, JNL, JS, JW, JSP, JN(120), J10, JN(0)>>}     \* ..\nScore:x 12/100

\* judge_team called on its own
InitJudge ==
    /\ InitWalk
    /\ team = MkTeam(<<"A">>, <<>>, "A")
    /\ max_rounds = 0
    /\ caller = "judge_team"
    /\ run_no = 1
    /\ run_doc = None
    /\ judge_result = None

\* judge_team: generate, _parse_evaluation; the dictionary returned or
\* the ValueError raised
JudgeTeam(R) ==
    /\ caller = "judge_team"
    /\ judge_result = None
    /\ \E response \in R :
         LET ev == parse_evaluation(response) IN
         judge_result' = [response |-> response, raised |-> ev.raised,
                          error |-> ev.error, score |-> ev.score,
                          reasoning |-> ev.reasoning]
    /\ UNCHANGED <<pc, files, team, max_rounds, max_iterations, tools, caller, run_no,
                   run_doc, walk_vars, available_agents, turn_vars>>

SpecJudge == InitJudge /\ [][JudgeTeam(AllJudgeResponses)]_vars

(***************************************************************************)
(* run_team_on_project, _store_and_run_team                                *)
(***************************************************************************)
ServiceCallers == {"run_team_on_project", "_store_and_run_team"}

\* the stored teams the service layer and the application are run on
ServiceTeams ==
    {MkTeam(<<"A", "B">>, <<Edge("A", "B")>>, "A"),
     MkTeam(<<"A", "B">>, <<Edge("A", "B"), Edge("B", "A")>>, "A"),
     MkTeam(<<"A">>, <<>>, "Z")}

\* repository.create_run({... "status": "running", "result": {}, ...})
NewRunDoc ==
    [status |-> "running", result |-> [empty |-> TRUE], score |-> None,
     score_reasoning |-> None]

\* result_dict: the converted team result plus "modified_files"
ResultDict(team_result, fs) ==
    [team_result |-> team_result, modified_files |-> fs]

\* mutant: the except branch reports the error but leaves the record alone
MarkFailed_RecordUntouched(doc, who, error) == doc

\* the except branch: update_run sets status and result ("score": 0.0 too
\* in _store_and_run_team)
MarkFailed(doc, who, error) ==
    IF who = "_store_and_run_team"
    THEN [doc EXCEPT !.status = "failed", !.result = [error |-> error], !.score = 0]
    ELSE [doc EXCEPT !.status = "failed", !.result = [error |-> error]]

\* what the service function gives its caller after the except branch:
\* run_team_on_project raises RuntimeError, _store_and_run_team returns ids
AfterFailure(who) ==
    IF who = "_store_and_run_team"
    THEN [raised |-> FALSE, value |-> "team_id, run_id"]
    ELSE [raised |-> TRUE, value |-> "RuntimeError"]

\* the judging step raised inside the try block
JudgeFailure(doc, who, error, team_result, fs) == MarkFailed(doc, who, error)

InitService ==
    /\ InitWalk
    /\ team \in ServiceTeams
    /\ caller \in ServiceCallers
    /\ run_no = 1
    /\ run_doc = NewRunDoc
    /\ judge_result = None

\* the walk returned; judge_team parses a score: update_run "completed"
JudgeScores ==
    /\ pc = "returned"
    /\ caller \in ServiceCallers
    /\ \E response \in JudgeResponses :
         LET ev == parse_evaluation(response) IN
         /\ ~ev.raised
         /\ judge_result' = [response |-> response, raised |-> FALSE,
                             error |-> ev.error, score |-> ev.score,
                             reasoning |-> ev.reasoning]
         /\ run_doc' = [status |-> "completed",
                        result |-> ResultDict(ret, files),
                        score |-> ev.score,
                        score_reasoning |-> ev.reasoning]
    /\ pc' = "done"
    /\ UNCHANGED <<files, team, max_rounds, max_iterations, tools, caller, run_no,
                   walk_vars, available_agents, turn_vars>>

\* the walk returned; _parse_evaluation raises ValueError: the except
\* branch marks the run failed
JudgeParseFails ==
    /\ pc = "returned"
    /\ caller \in ServiceCallers
    /\ \E response \in JudgeResponses :
         LET ev == parse_evaluation(response) IN
         /\ ev.raised
         /\ judge_result' = [response |-> response, raised |-> TRUE,
                             error |-> ev.error, score |-> None,
                             reasoning |-> None]
         /\ run_doc' = JudgeFailure(run_doc, caller, ev.error, ret, files)
    /\ pc' = "done"
    /\ UNCHANGED <<files, team, max_rounds, max_iterations, tools, caller, run_no,
                   walk_vars, available_agents, turn_vars>>

\* the walk returned; the judge's own llm_client.generate raises
\* RuntimeError: the except branch marks the run failed
JudgeModelFails ==
    /\ pc = "returned"
    /\ caller \in ServiceCallers
    /\ judge_result' = [response |-> <<>>, raised |-> TRUE, error |-> "RuntimeError",
                        score |-> None, reasoning |-> None]
    /\ run_doc' = MarkFailed(run_doc, caller, "RuntimeError")
    /\ pc' = "done"
    /\ UNCHANGED <<files, team, max_rounds, max_iterations, tools, caller, run_no,
                   walk_vars, available_agents, turn_vars>>

\* the walk raised (configuration error, TypeError in the tool loop, the
\* completion service): the except branch marks the run failed
RunFails ==
    /\ pc = "raised"
    /\ caller \in ServiceCallers
    /\ stop_cause # "SystemExit"            \* except Exception
    /\ run_doc' = MarkFailed(run_doc, caller, stop_cause)
    /\ pc' = "done"
    /\ UNCHANGED <<files, team, max_rounds, max_iterations, tools, caller, run_no,
                   judge_result, walk_vars, available_agents, turn_vars>>

\* what run_team_on_project or _store_and_run_team gave its caller
ServiceReturn ==
    IF run_doc.status = "failed" THEN AfterFailure(caller)
    ELSE IF caller = "_store_and_run_team"
    THEN [raised |-> FALSE, value |-> "team_id, run_id"]
    ELSE [raised |-> FALSE, value |-> run_doc]

NextService ==
    \/ Next
    \/ JudgeScores
    \/ JudgeParseFails
    \/ JudgeModelFails
    \/ RunFails

SpecService == InitService /\ [][NextService]_vars

(***************************************************************************)
(* AgentEvoApp.run_team                                                    *)
(***************************************************************************)
MaxRuns == 2            \* run_team calls on one AgentEvoApp

InitApp ==
    /\ InitWalk
    /\ team \in ServiceTeams
    /\ caller = "AgentEvoApp.run_team"
    /\ run_no = 1
    /\ run_doc = None
    /\ judge_result = None

\* json.dumps(result, indent=2, default=str)
ResultJson(team_result) ==
    StrValue(<<[k |-> "json", a |-> team_result.team_id, b |-> team_result.rounds]>>)

\* if save_result: self.filesystem.write_file("output.json", result_json)
AppSaveResult ==
    /\ pc = "returned"
    /\ caller = "AgentEvoApp.run_team"
    /\ files' = write_file(files,
                    [n \in {"file_path", "content"} |->
                        IF n = "file_path" THEN StrValue(<<Txt("output.json")>>)
                        ELSE ResultJson(ret)]).files
    /\ pc' = "saved"
    /\ UNCHANGED <<conf_vars, walk_vars, available_agents, turn_vars>>

\* the same application object is asked to run a team once more: a new
\* TeamRunner on self.filesystem
AppRunAgain ==
    /\ pc \in {"saved", "raised"}
    /\ caller = "AgentEvoApp.run_team"
    /\ run_no < MaxRuns
    /\ run_no' = run_no + 1
    /\ pc' = "start"
    /\ chat_history' = <<>>
    /\ execution_history' = <<>>
    /\ current_agent_id' = team.entry_point
    /\ current_task' = InitialTask
    /\ visited_agents' = {}
    /\ round_num' = 0
    /\ rounds_left' = max_rounds
    /\ available_agents' = <<>>
    /\ messages' = <<>>
    /\ history' = <<>>
    /\ iteration' = 0
    /\ delegation' = None
    /\ is_finished' = FALSE
    /\ result' = None
    /\ model_calls' = 0
    /\ ret' = None
    /\ stop_cause' = "none"
    /\ UNCHANGED <<files, team, max_rounds, max_iterations, tools, caller, run_doc,
                   judge_result>>

NextApp ==
    \/ Next
    \/ AppSaveResult
    \/ AppRunAgain

SpecApp == InitApp /\ [][NextApp]_vars

(***************************************************************************)
(* Properties                                                              *)
(***************************************************************************)
Terminated == pc \in {"returned", "raised"}

Turns == Len(execution_history)

HasDelegation(entry) == entry.result.delegation # None

\* C1: for every valid team and every max_rounds >= 1, run_team terminates
\* (it reaches its return, or the exception of a turn leaves it) and never
\* runs more than max_rounds agent turns: neither the turns begun nor the
\* entries of execution_history exceed max_rounds.  Each turn terminates
\* because its loop is capped by max_iterations.
C1_TerminatesWithinMaxRounds ==
    /\ [](max_rounds >= 1 =>
            /\ Turns <= max_rounds
            /\ Cardinality(visited_agents) <= max_rounds)
    /\ (max_rounds >= 1 => <>Terminated)

\* the cap bites: the last turn asked for another one, and none was left
C1_Witness ==
    /\ pc = "returned"
    /\ stop_cause = "max_rounds"
    /\ max_rounds >= 1
    /\ Turns = max_rounds
    /\ HasDelegation(Last(execution_history))

\* C2: no agent takes more than one turn in a run_team call: the agent ids
\* of execution_history are pairwise distinct, there are at most |agent_ids|
\* of them, and an agent that is running has no earlier turn.
C2_NoAgentRunsTwice ==
    /\ \A i, j \in 1..Turns :
          i # j => execution_history[i].agent_id # execution_history[j].agent_id
    /\ Turns <= Len(team.agent_ids)
    /\ pc = "turn" =>
          \A i \in 1..Turns : execution_history[i].agent_id # current_agent_id

\* an already visited agent was selected again and the walk stopped there
C2_Witness ==
    /\ pc = "returned"
    /\ stop_cause = "cycle"
    /\ Turns >= 2
    /\ \E i \in 1..Turns : execution_history[i].agent_id = current_agent_id

CycleTeamAB == MkTeam(<<"A", "B">>, <<Edge("A", "B"), Edge("B", "A")>>, "A")

\* every turn so far ended unfinished, delegating to the other agent
OnlyDelegatesBack ==
    \A i \in 1..Turns :
        LET e == execution_history[i] IN
        /\ ~e.result.finished
        /\ HasDelegation(e)
        /\ e.result.delegation.to_agent = (IF e.agent_id = "A" THEN "B" ELSE "A")

\* C3: on the team A->B, B->A with entry point A, whose agents never finish
\* and only delegate back to each other, the rounds value run_team reports
\* is at most |agent_ids| + 1 and never exceeds max_rounds.
C3_CycleRoundsBounded ==
    (pc = "returned" /\ team = CycleTeamAB /\ OnlyDelegatesBack) =>
        /\ ret.rounds <= Len(team.agent_ids) + 1
        /\ ret.rounds <= max_rounds

\* C4: when run_team stops because the selected agent was already visited,
\* the returned result carries a mark of the cause, a cycle break.
C4_CycleBreakMarked ==
    (pc = "returned" /\ stop_cause = "cycle") =>
        \E f \in DOMAIN ret \ {"team_id", "team_name", "execution_history",
                               "chat_history", "agent_outputs", "rounds"} : TRUE

\* C5: the rounds value run_team returns is the number of agent turns
\* executed, the length of execution_history, however the walk ends.
C5_RoundsIsTurnCount ==
    pc = "returned" => ret.rounds = Len(ret.execution_history)

\* run_agent left its loop through the while condition
StoppedAtCap ==
    /\ pc = "post"
    /\ \/ result.history = <<>>
       \/ /\ ~Last(result.history).finished
          /\ "delegation" \notin DOMAIN Last(result.history)

\* C6: run_agent makes at most max_iterations model calls and returns
\* without raising; stopped by the iteration cap, its result has
\* finished = false and no delegation.
C6_CapAndNoRaise ==
    /\ model_calls <= max_iterations
    /\ pc # "raised"
    /\ StoppedAtCap => (~result.finished /\ result.delegation = None)

\* a delegation marker with a target id and a non-empty task body
WellFormedMarker(response) ==
    \E i \in 1..Len(response) :
        /\ response[i].k = "DLG"
        /\ response[i].a # ""
        /\ Strip(<<Txt(response[i].b)>>
                 \o SubSeq(response, i + 1, NextMarker(response, i) - 1)) # EmptyStr

\* C7: a response with no tool calls and a well-formed delegation marker
\* ends the turn at once: it is the last response of the turn, and the
\* result carries the delegation.
C7_DelegationEndsTurn ==
    \A i \in 1..Len(history) :
        (/\ parse_response(history[i].response).tool_calls = <<>>
         /\ WellFormedMarker(history[i].response)) =>
            /\ i = Len(history)
            /\ pc = "post"
            /\ result.delegation # None
            /\ result.iterations = i
            /\ Last(result.messages) = AssistantMsg(history[i].response)

\* the content of the last assistant message
LastAssistant(msgs) ==
    LET idx == {i \in 1..Len(msgs) : msgs[i].role = "assistant"}
    IN msgs[CHOOSE i \in idx : \A j \in idx : j <= i].content

SaidSomething(msgs) == \E i \in 1..Len(msgs) : msgs[i].role = "assistant"

\* C8: final_response is the text of the last assistant response of the
\* turn, however the turn ended, and agent_outputs maps each agent that
\* ran to that text.
C8_FinalResponseIsLastAssistant ==
    /\ (pc = "post" /\ SaidSomething(result.messages)) =>
          result.final_response = LastAssistant(result.messages)
    /\ pc = "returned" =>
          \A i \in 1..Turns :
              LET e == execution_history[i] IN
              SaidSomething(e.result.messages) =>
                  ret.agent_outputs[e.agent_id] = LastAssistant(e.result.messages)

\* the target is no outgoing-edge neighbour of the agent, or no known agent
BadTarget(entry) ==
    \/ \A k \in 1..Len(team.edges) :
          ~(/\ team.edges[k].from_agent = entry.agent_id
            /\ team.edges[k].to_agent = entry.result.delegation.to_agent)
    \/ entry.result.delegation.to_agent \notin AgentIdSet

\* C9: a turn that ends with a delegation to a non-neighbour or to an
\* unknown agent is the last turn: the walk has stopped without raising and
\* has returned the history gathered so far, and the target has not run.
C9_BadDelegationStopsWalk ==
    \A i \in 1..Turns :
        (HasDelegation(execution_history[i]) /\ BadTarget(execution_history[i])) =>
            /\ i = Turns
            /\ pc = "returned"
            /\ ret.execution_history = execution_history
            /\ ret.chat_history = chat_history

\* a second turn ended with a delegation to an agent that is no neighbour
C9_Witness ==
    /\ pc = "returned"
    /\ stop_cause = "invalid_delegation"
    /\ Turns = 2
    /\ HasDelegation(execution_history[2])
    /\ BadTarget(execution_history[2])

\* C10: after a turn that ends with a delegation to an unvisited outgoing
\* neighbour, if a round remains the next turn is run by the target, on
\* exactly the delegation's task text.
C10_DelegationIsFollowed ==
    /\ \A i \in 1..(Turns - 1) :
          HasDelegation(execution_history[i]) =>
              /\ execution_history[i + 1].agent_id =
                    execution_history[i].result.delegation.to_agent
              /\ execution_history[i + 1].task =
                    execution_history[i].result.delegation.task
    /\ (pc \in {"turn", "post"} /\ Turns >= 1 /\ HasDelegation(Last(execution_history))) =>
          /\ current_agent_id = Last(execution_history).result.delegation.to_agent
          /\ current_task = Last(execution_history).result.delegation.task
          /\ messages[2] = TaskMsg(Last(execution_history).result.delegation.task)
    /\ (/\ pc = "returned"
        /\ Turns >= 1
        /\ HasDelegation(Last(execution_history))
        /\ ~BadTarget(Last(execution_history))
        /\ \A i \in 1..Turns :
              execution_history[i].agent_id #
                  Last(execution_history).result.delegation.to_agent) =>
          (stop_cause = "max_rounds" /\ Turns = max_rounds)

\* the delegated agent has run its turn on the delegated task
C10_Witness ==
    /\ Turns >= 2
    /\ HasDelegation(execution_history[1])
    /\ execution_history[2].agent_id = execution_history[1].result.delegation.to_agent
    /\ execution_history[2].task = <<Txt("t1")>>

\* the agents that have run up to and including turn i
RanUpTo(i) == {execution_history[j].agent_id : j \in 1..i}

\* the unvisited outgoing neighbours, in edge order, of the agent of turn i
UnvisitedAfter(i) ==
    SelectSeq(get_neighbors(team, execution_history[i].agent_id),
              LAMBDA aid : aid \notin RanUpTo(i))

ValidConfig(t) ==
    LET ids == {t.agent_ids[i] : i \in 1..Len(t.agent_ids)} IN
    /\ t.entry_point \in ids
    /\ \A i \in 1..Len(t.edges) : {t.edges[i].from_agent, t.edges[i].to_agent} \subseteq ids
    /\ ids \subseteq AgentIdSet

\* C12: on a team whose entry point or an edge endpoint is not in agent_ids,
\* or with an id that has no agent, run_team does nothing but raise a
\* configuration error: no turn begins, no model call, no tool execution and
\* no file write is made, and nothing is returned.
C12_ConfigErrorBeforeAnyCall ==
    ~ValidConfig(team) =>
        /\ pc \in {"start", "raised"}
        /\ pc = "raised" => stop_cause = "config_error"
        /\ model_calls = 0
        /\ messages = <<>>
        /\ history = <<>>
        /\ files = NoFiles
        /\ visited_agents = {}
        /\ execution_history = <<>>
        /\ ret = None

\* run_team has raised on a team that passes Team.validate but names an
\* agent that does not exist
C12_Witness ==
    /\ pc = "raised"
    /\ stop_cause = "config_error"
    /\ validate(team)
    /\ ~AgentsExist(team)

\* the iterations of this turn whose tool calls did not all succeed
FailedToolIterations ==
    {i \in 1..Len(messages) :
        /\ messages[i].content.kind = "tool_results"
        /\ ~all_success(messages[i].content.body)}

\* C13: within one turn the tool calls fail at most once and are then
\* retried at most max_retries times: no more than max_retries + 1 iterations
\* of the turn have a failed tool call.
C13_RetriesBounded ==
    Cardinality(FailedToolIterations) <= Agent(current_agent_id).max_retries + 1

\* C14: a response with no tool calls, no well-formed delegation marker and
\* the completion marker ends the turn: it is the last response of the turn,
\* the result has finished = true, and no further model call is made.
C14_FinishedEndsTurn ==
    \A i \in 1..Len(history) :
        (/\ Readings[history[i].response].tool_calls = <<>>
         /\ ~WellFormedMarker(history[i].response)
         /\ is_finished_marker(history[i].response)) =>
            /\ i = Len(history)
            /\ pc = "post"
            /\ result.finished
            /\ result.delegation = None
            /\ result.iterations = i
            /\ model_calls = i

\* C15: a response with no tool calls, no well-formed delegation marker and
\* no completion marker, an unterminated tool call included, does not end
\* the turn and raises nothing: the response and a continue prompt are
\* appended to the conversation, and the loop goes on while the cap allows.
C15_NeitherDrivesContinuePrompt ==
    \A i \in 1..Len(history) :
        (/\ Readings[history[i].response].tool_calls = <<>>
         /\ ~WellFormedMarker(history[i].response)
         /\ ~is_finished_marker(history[i].response)) =>
            /\ pc # "raised"
            /\ Len(messages) >= 2 * i + 2
            /\ messages[2 * i + 1] = AssistantMsg(history[i].response)
            /\ messages[2 * i + 2] = ContinueMsg
            /\ (pc = "post") => (i = Len(history) => result.delegation = None)

\* the results execute_tool has returned in this turn
ExecutedResults ==
    {r \in UNION {{m.content.body[k] : k \in 1..Len(m.content.body)} :
                    m \in {messages[i] : i \in {j \in 1..Len(messages) :
                                messages[j].content.kind = "tool_results"}}} :
        r.kind = "executed"}

\* C16: execute_tool never lets a failure of the tool out: no exception of
\* a tool function leaves it, and each result it returns has either
\* success = true and no error, or success = false and an error.
C16_ExecuteToolNeverRaises ==
    /\ stop_cause # "SystemExit"
    /\ \A r \in ExecutedResults : r.success <=> ~r.error

\* the declared parameters of a tool that are required, have no default and
\* are absent from the arguments
MissingNames(tool, arguments) ==
    {p.name : p \in {q \in {Parameters(tool)[i] : i \in 1..Len(Parameters(tool))} :
                        q.required /\ ~q.has_default /\ q.name \notin DOMAIN arguments}}

\* the tool results reported after iteration i
ResultsOf(i) == messages[2 * i + 2].content.body

\* C17: validate_arguments reports an error exactly for the calls that lack
\* a declared parameter which is required and has no default, and the error
\* names exactly those parameters; a call it rejects is not executed, and
\* the arguments recorded for a call are those it was handed.
C17_ValidateNamesMissingRequired ==
    \A i \in 1..Len(history) :
        (Len(messages) >= 2 * i + 2 /\ messages[2 * i + 2].content.kind = "tool_results") =>
            \A k \in 1..Len(ResultsOf(i)) :
                LET call == history[i].tool_calls[k]
                    r == ResultsOf(i)[k]
                    missing == MissingNames(call.tool, call.arguments)
                IN
                /\ r.tool = call.tool
                /\ call.arguments =
                      RewritePath(Readings[history[i].response].tool_calls[k]).arguments
                /\ r.kind # "not_found" =>
                      /\ (r.kind = "invalid") <=> (missing # {})
                      /\ (r.kind = "executed") <=> (missing = {})
                      /\ r.kind = "invalid" =>
                            {r.missing[j] : j \in 1..Len(r.missing)} = missing

\* a write_file call without arguments was rejected, naming file_path and
\* content, and wrote nothing
C17_Witness ==
    /\ Len(history) >= 1
    /\ history[1].response = NoArgCall
    /\ Len(messages) >= 4
    /\ ResultsOf(1)[1].kind = "invalid"
    /\ ResultsOf(1)[1].missing = <<"file_path", "content">>
    /\ files = NoFiles

IsMarker(line) == line.k \in {"BTC", "BA", "EA", "ETC"}

\* the kind of the last marker line strictly between s and j, if any
PrevMarker(response, s, j) ==
    LET ms == {m \in (s + 1)..(j - 1) : IsMarker(response[m])} IN
    IF ms = {} THEN "none"
    ELSE response[CHOOSE m \in ms : \A m2 \in ms : m2 <= m].k

\* lines s..e are BEGIN_TOOL_CALL with a tool name, argument blocks each
\* opened by BEGIN_ARG and closed by END_ARG, then END_TOOL_CALL
WellFormedBlock(response, s, e) ==
    /\ s < e
    /\ response[s].k = "BTC" /\ response[s].a # ""
    /\ response[e].k = "ETC"
    /\ PrevMarker(response, s, e) \in {"none", "EA"}
    /\ \A j \in (s + 1)..(e - 1) :
          CASE response[j].k = "BA" -> PrevMarker(response, s, j) \in {"none", "EA"}
            [] response[j].k = "EA" -> PrevMarker(response, s, j) = "BA"
            [] response[j].k \in {"BTC", "ETC"} -> FALSE
            [] OTHER -> PrevMarker(response, s, j) = "BA"

\* N: the number of argument blocks of the block s..e
ArgBlocks(response, s, e) == {j \in (s + 1)..(e - 1) : response[j].k = "BA"}

\* the argument blocks of the block s..e have pairwise distinct names
DistinctArgNames(response, s, e) ==
    \A j1, j2 \in ArgBlocks(response, s, e) :
        j1 # j2 => response[j1].a # response[j2].a

\* C18: for every well-formed call block with N argument blocks (of N
\* different names, as a mapping of N keys needs) in a response,
\* parse_response emits a call for that block (its tool name, its lines)
\* whose argument mapping has exactly N keys, and the cleaned text has none
\* of the marker lines of well-formed blocks.
C18_WellFormedBlockGivesNKeys ==
    \A i \in 1..Len(history) :
        LET response == history[i].response
            parsed == parse_response(response)
        IN
        \A s, e \in 1..Len(response) :
            (WellFormedBlock(response, s, e) /\ DistinctArgNames(response, s, e)) =>
                /\ \E c \in 1..Len(parsed.tool_calls) :
                      /\ parsed.tool_calls[c].tool = response[s].a
                      /\ parsed.tool_calls[c].raw = SubSeq(response, s, e)
                      /\ Cardinality(DOMAIN parsed.tool_calls[c].arguments) =
                            Cardinality(ArgBlocks(response, s, e))
                /\ \A m \in s..e :
                      IsMarker(response[m]) =>
                          Cardinality({q \in 1..Len(parsed.cleaned_response) :
                                          parsed.cleaned_response[q] = response[m]})
                            <= Cardinality({q \in 1..Len(response) :
                                              /\ response[q] = response[m]
                                              /\ \A s2, e2 \in 1..Len(response) :
                                                    WellFormedBlock(response, s2, e2) =>
                                                        (q < s2 \/ q > e2)})

\* line s opens a tool call whose closing marker is never found: no
\* END_TOOL_CALL line follows it
Unterminated(response, s) ==
    /\ response[s].k = "BTC" /\ response[s].a # ""
    /\ \A j \in (s + 1)..Len(response) : response[j].k # "ETC"

\* C19: a tool call whose closing marker is never found is dropped:
\* parse_response emits no call that reaches into the unterminated block,
\* and the cleaned text still ends with the whole block (up to the
\* whitespace that strip() takes from the end of the text).
C19_UnterminatedCallDropped ==
    \A i \in 1..Len(history) :
        LET response == history[i].response
            parsed == parse_response(response)
            spans == ParseCalls(response, 1, <<>>, <<>>).positions
        IN
        \A s \in 1..Len(response) :
            Unterminated(response, s) =>
                LET block == StripRight(SubSeq(response, s, Len(response)))
                    cleaned == parsed.cleaned_response
                IN
                /\ Len(parsed.tool_calls) = Len(spans)
                /\ \A p \in 1..Len(spans) : spans[p][2] < s
                /\ history[i].tool_calls = <<>> \/
                      Len(history[i].tool_calls) = Len(parsed.tool_calls)
                /\ Len(cleaned) >= Len(block)
                /\ SubSeq(cleaned, Len(cleaned) - Len(block) + 1, Len(cleaned)) = block

\* a response with a complete write_file call followed by an unterminated
\* call: the first was emitted and run, the second was not
C19_Witness ==
    /\ Len(history) >= 1
    /\ history[1].response = WriteCall \o UnterminatedCall
    /\ Len(history[1].tool_calls) = 1
    /\ history[1].tool_calls[1].tool = "write_file"
    /\ parse_response(history[1].response).cleaned_response = UnterminatedCall

\* the body of the argument block opened at line j: up to its END_ARG
ArgBody(response, j) ==
    LET close == CHOOSE m \in (j + 1)..Len(response) :
                    /\ response[m].k = "EA"
                    /\ \A m2 \in (j + 1)..(m - 1) : response[m2].k # "EA"
    IN SubSeq(response, j + 1, close - 1)

\* first and last line of the body are triple-quote-only lines
Wrapped(body) ==
    Len(body) >= 2 /\ IsTripleQuote(body[1]) /\ IsTripleQuote(Last(body))

\* every multi-line body satisfying Covered, in a well-formed block that
\* parse_response emitted, came back as a string of exactly its lines
RoundTrips(Covered(_)) ==
    \A i \in 1..Len(history) :
        LET response == history[i].response
            parsed == parse_response(response)
            spans == ParseCalls(response, 1, <<>>, <<>>).positions
        IN
        \A c \in 1..Len(spans) :
            WellFormedBlock(response, spans[c][1], spans[c][2]) =>
                \A j \in ArgBlocks(response, spans[c][1], spans[c][2]) :
                    LET body == ArgBody(response, j) IN
                    (/\ Len(body) >= 2
                     /\ Covered(body)
                     /\ \A j2 \in ArgBlocks(response, spans[c][1], spans[c][2]) :
                           j2 > j => response[j2].a # response[j].a) =>
                        /\ response[j].a \in DOMAIN parsed.tool_calls[c].arguments
                        /\ parsed.tool_calls[c].arguments[response[j].a] = StrValue(body)

NotWrapped(body) == ~Wrapped(body)

AnyBody(body) == TRUE

\* C20 (amended): a multi-line argument body between BEGIN_ARG and END_ARG
\* whose first and last lines are not both triple-quote-only lines is
\* returned by parse_response as a string of exactly the same lines, blank
\* lines included, so writing it back into the block gives the same body.
C20_MultiLineBodyRoundTrips == RoundTrips(NotWrapped)

\* C20 as stated: every multi-line argument body is returned as exactly
\* the same lines.
C20_AnyMultiLineBodyRoundTrips == RoundTrips(AnyBody)

\* a write_file call with a three-line content, the middle line blank,
\* was parsed and executed: the file holds the three lines
C20_Witness ==
    /\ Len(history) >= 1
    /\ history[1].response = MultiLineCall
    /\ history[1].tool_calls[1].arguments["content"] =
          StrValue(<<Txt("a"), Txt(""), Txt("b")>>)
    /\ "out.txt" \in DOMAIN files
    /\ files["out.txt"] = StrValue(<<Txt("a"), Txt(""), Txt("b")>>)

\* what a single-line body must come back as
ExpectedType(line) ==
    CASE line.k # "text" -> "str"
      [] line.a \in {"42", "0", "-7"} -> "int"
      [] line.a \in {"3.14", "2."} -> "float"
      [] line.a \in {"true", "True", "TRUE", "false", "False", "FALSE"} -> "bool"
      [] line.a \in {"none", "None", "NONE", "null", "Null", "NULL"} -> "none"
      [] OTHER -> "str"

\* C21: for a single-line argument body of a call parse_response emitted,
\* the argument is the integer for an integer literal, the float for a
\* literal with a decimal point, the boolean for true/false in any letter
\* case, null for none/null in any letter case, and the unchanged string
\* for anything else.
C21_SingleLineBodyCoerced ==
    \A i \in 1..Len(history) :
        LET response == history[i].response
            parsed == parse_response(response)
            spans == ParseCalls(response, 1, <<>>, <<>>).positions
        IN
        \A c \in 1..Len(spans) :
            WellFormedBlock(response, spans[c][1], spans[c][2]) =>
                \A j \in ArgBlocks(response, spans[c][1], spans[c][2]) :
                    LET body == ArgBody(response, j) IN
                    (/\ Len(body) = 1
                     /\ \A j2 \in ArgBlocks(response, spans[c][1], spans[c][2]) :
                           j2 > j => response[j2].a # response[j].a) =>
                        /\ response[j].a \in DOMAIN parsed.tool_calls[c].arguments
                        /\ parsed.tool_calls[c].arguments[response[j].a] =
                              [t |-> ExpectedType(body[1]), v |-> body]

\* a call with a float, a boolean in capitals, a null in capitals and a
\* plain word was parsed and handed to the tool, and another call's 42
\* came back as an integer
C21_Witness ==
    /\ Len(history) >= 2
    /\ history[1].response = TypedArgsCall
    /\ history[1].tool_calls[1].arguments["x"].t = "float"
    /\ history[1].tool_calls[1].arguments["y"].t = "bool"
    /\ history[1].tool_calls[1].arguments["z"].t = "none"
    /\ history[1].tool_calls[1].arguments["w"] = StrValue(<<Txt("hello")>>)
    /\ history[2].response = CalcCall
    /\ history[2].tool_calls[1].arguments["x"] = [t |-> "int", v |-> <<Txt("42")>>]

\* some score pattern matches somewhere in the judge response
SomePatternMatches(r) ==
    \E n \in 1..4 : \E i \in 1..Len(r) : PatternAt(n, r, i) # 0

\* C22: judge_team returns a score only when a score pattern matches the
\* response and the extracted value lies in [0,10] (0..100 tenths); a
\* response matching no pattern fails with a parse error, a response whose
\* extracted score is out of range fails and is not clamped, and every
\* score returned is within 0..10.
C22_JudgeScoreOnlyInRange ==
    judge_result # None =>
        LET r == judge_result.response
            m == FirstMatch(1, r)
        IN
        /\ ~judge_result.raised =>
              /\ SomePatternMatches(r)
              /\ judge_result.score = r[m].v
              /\ 0 <= judge_result.score /\ judge_result.score <= 100
        /\ ~SomePatternMatches(r) =>
              /\ judge_result.raised
              /\ judge_result.error = "ValueError: could not parse score"
        /\ (SomePatternMatches(r) /\ r[m].v > 100) =>
              /\ judge_result.raised
              /\ judge_result.error = "ValueError: score out of range"
              /\ judge_result.score = None

\* the judge answered 12/10: judge_team raised, no score came back
C22_Witness ==
    /\ judge_result # None
    /\ judge_result.response = <<JN(120), J10>>
    /\ judge_result.raised
    /\ judge_result.score = None

\* C23: when the team run itself completed but the judging step failed (no
\* score pattern matched, or the score was out of range), the run record
\* keeps the team result and is not a failed run.
C23_JudgeFailureKeepsTeamRun ==
    (pc = "done" /\ judge_result # None /\ judge_result.raised) =>
        /\ run_doc.status # "failed"
        /\ run_doc.result = ResultDict(ret, files)

\* C24: a run that fails after it has started (the completion service
\* fails in a later round, after at least one agent has run) still gives
\* its caller a result object with the partial history gathered so far:
\* run_team has a return value holding the execution history, and the
\* service function hands back a record with that history instead of
\* raising.
C24_FailedRunReturnsPartialResult ==
    (stop_cause = "RuntimeError" /\ execution_history # <<>>) =>
        /\ pc = "raised" =>
              /\ ret # None
              /\ ret.execution_history = execution_history
        /\ pc = "done" =>
              /\ ~ServiceReturn.raised
              /\ "team_result" \in DOMAIN run_doc.result
              /\ run_doc.result.team_result.execution_history = execution_history

\* C25: team runs share no mutable state: when a run starts, also one
\* started through the application object that ran another team before,
\* its filesystem shows no file written by the tools of another run and no
\* result saved by another run.
C25_RunsShareNoFiles ==
    pc = "start" => files = NoFiles

\* two agents, the single edge A->B, entry point A
ChainAB == MkTeam(<<"A", "B">>, <<Edge("A", "B")>>, "A")

\* the model responses of one round, in order
ResponsesOf(entry) ==
    [i \in 1..Len(entry.result.history) |-> entry.result.history[i].response]

C28_FailedToolSkipsMarkerChecks ==
    [][(/\ pc = "turn"
        /\ Len(history') = Len(history) + 1
        /\ Last(history').tool_calls # <<>>
        /\ ~all_success(Last(messages').content.body)
        /\ iteration' <= Agent(current_agent_id).max_retries) =>
            /\ pc' = "turn"
            /\ ~is_finished'
            /\ delegation' = None
            /\ result' = result
            /\ ~Last(history').finished]_vars

\* Alice (max_retries 1) answered with a failing read_file and the
\* completion marker; the loop went on to a second model call
C28_Witness ==
    /\ current_agent_id = "A"
    /\ Len(history) >= 2
    /\ history[1].response = ReadMissingCall \o <<FIN>>
    /\ ~all_success(messages[4].content.body)
    /\ ~history[1].finished
    /\ model_calls >= 2

\* all_tools: the default tools and the custom tools handed to run_agent
Catalog == DefaultToolNames \cup tools

\* C29: a call of a tool that is unknown to the whole catalog is reported
\* as 'not found', a call of a tool that is in the catalog but not granted
\* to the agent is reported as a distinct 'not available to this agent'
\* failure, and in both cases the tool is not executed.
C29_NotFoundVersusNotAvailable ==
    \A i \in 1..Len(history) :
        (Len(messages) >= 2 * i + 2 /\ messages[2 * i + 2].content.kind = "tool_results") =>
            \A k \in 1..Len(ResultsOf(i)) :
                LET r == ResultsOf(i)[k]
                    granted == AvailableTools(Agent(current_agent_id), tools)
                IN
                /\ r.tool \notin Catalog => r.kind = "not_found"
                /\ (r.tool \in Catalog /\ r.tool \notin granted) =>
                      r.kind = "not_available"
                /\ r.tool \notin granted => r.kind # "executed"

\* C30: a tool call that times out (HTTP request or shell command) is
\* reported to the turn loop as a structured failure, success = false with
\* an error, so that the retry test sees a failed tool.
C30_TimeoutIsStructuredFailure ==
    \A i \in 1..Len(history) :
        (Len(messages) >= 2 * i + 2 /\ messages[2 * i + 2].content.kind = "tool_results") =>
            \A k \in 1..Len(ResultsOf(i)) :
                LET call == history[i].tool_calls[k]
                    r == ResultsOf(i)[k]
                IN
                (r.kind = "executed" /\ TimesOut(call.tool, call.arguments)) =>
                    /\ ~r.success
                    /\ r.error
                    /\ ~all_success(ResultsOf(i))

\* the service function is over: its try block ended, or an exception that
\* is no Exception passed its except branch
ServiceOver == pc = "done" \/ (pc = "raised" /\ stop_cause = "SystemExit")

\* a step after the completion service failed makes no model call, and no
\* step takes a completed record to another status
NoCallAfterFailure ==
    /\ (stop_cause = "RuntimeError") =>
          (/\ model_calls' = model_calls
           /\ iteration' = iteration
           /\ judge_result' = judge_result)
    /\ (run_doc.status = "completed") => (run_doc'.status = "completed")

C32_FinishedWithToolsEndsTurn ==
    [][(/\ pc = "turn"
        /\ Len(history') = Len(history) + 1
        /\ Last(history').tool_calls # <<>>
        /\ Readings[Last(history').response].finished
        /\ all_success(Last(messages').content.body)) =>
            /\ pc' = "post"
            /\ is_finished'
            /\ Last(history').finished
            /\ result'.finished]_vars

\* C33: coercion is for single-line bodies only: every body of two or more
\* lines between BEGIN_ARG and END_ARG, a body wrapped in triple-quote lines
\* included, comes back as a string, never as a number, a boolean or null.
C33_MultiLineBodyIsString ==
    \A i \in 1..Len(history) :
        LET response == history[i].response
            parsed == parse_response(response)
            spans == ParseCalls(response, 1, <<>>, <<>>).positions
        IN
        \A c \in 1..Len(spans) :
            WellFormedBlock(response, spans[c][1], spans[c][2]) =>
                \A j \in ArgBlocks(response, spans[c][1], spans[c][2]) :
                    LET body == ArgBody(response, j) IN
                    (/\ Len(body) >= 2
                     /\ \A j2 \in ArgBlocks(response, spans[c][1], spans[c][2]) :
                           j2 > j => response[j2].a # response[j].a) =>
                        /\ response[j].a \in DOMAIN parsed.tool_calls[c].arguments
                        /\ parsed.tool_calls[c].arguments[response[j].a].t = "str"

\* the lines after the BEGIN_ARG at line j up to the next marker line
OpenBody(response, j) ==
    LET stop == CHOOSE m \in (j + 1)..Len(response) :
                    /\ response[m].k \in {"BA", "EA", "ETC"}
                    /\ \A m2 \in (j + 1)..(m - 1) : response[m2].k \notin {"BA", "EA", "ETC"}
    IN SubSeq(response, j + 1, stop - 1)

\* C34: an argument that is open when END_TOOL_CALL or the next BEGIN_ARG
\* arrives is finalized with the lines gathered so far: every BEGIN_ARG of
\* an emitted call gives a key of the argument mapping, whose value (for
\* the last BEGIN_ARG of a name) is made of the lines up to the next
\* marker, the empty string when there are none.
C34_PendingArgumentFinalized ==
    \A i \in 1..Len(history) :
        LET response == history[i].response
            parsed == parse_response(response)
            spans == ParseCalls(response, 1, <<>>, <<>>).positions
        IN
        \A c \in 1..Len(spans) :
            (\A m \in (spans[c][1] + 1)..(spans[c][2] - 1) : response[m].k # "BTC") =>
                \A j \in ArgBlocks(response, spans[c][1], spans[c][2]) :
                    (/\ response[j].a # ""
                     /\ \A j2 \in ArgBlocks(response, spans[c][1], spans[c][2]) :
                           j2 > j => response[j2].a # response[j].a) =>
                        /\ response[j].a \in DOMAIN parsed.tool_calls[c].arguments
                        /\ parsed.tool_calls[c].arguments[response[j].a] =
                              process_arg_value(OpenBody(response, j))

\* the tool loop of run_agent on the calls of a response, in the current
\* state
ToolLoopOn(response) ==
    RunToolCalls(Readings[response].tool_calls,
                 AvailableTools(Agent(current_agent_id), tools), files, 1, <<>>, <<>>)

\* this step is run_agent receiving the response and going through its
\* tool calls, to the end of the pass or to an exception
HandlesCallsOf(response) ==
    /\ pc = "turn"
    /\ model_calls' = model_calls + 1
    /\ \/ /\ Len(history') = Len(history) + 1
          /\ Last(history').response = response
       \/ /\ pc' = "raised"
          /\ ToolLoopOn(response).raised
          /\ stop_cause' = ToolLoopOn(response).exc
          /\ files' = ToolLoopOn(response).files

\* C35: the tool calls of a response with several calls are handled one
\* after the other in order of appearance, with exactly one result per
\* call; a call of an unresolvable tool or with missing arguments is not
\* executed, and no call's failure keeps a later call from being handled.
C35_OneResultPerCallInOrder ==
    [][\A response \in AgentResponses :
         (Len(Readings[response].tool_calls) >= 2 /\ HandlesCallsOf(response)) =>
            LET calls == Readings[response].tool_calls
                rs == Last(messages').content.body
                avail == AvailableTools(Agent(current_agent_id), tools)
            IN
            /\ pc' # "raised"
            /\ Last(messages').content.kind = "tool_results"
            /\ Len(rs) = Len(calls)
            /\ \A k \in 1..Len(calls) :
                  /\ rs[k].tool = calls[k].tool
                  /\ rs[k].kind = "not_found" <=> calls[k].tool \notin avail
                  /\ rs[k].kind = "executed" <=>
                        /\ calls[k].tool \in avail
                        /\ validate_arguments(calls[k].tool,
                               RewritePath(calls[k]).arguments) = <<>>]_vars

\* C36: the tools an agent can invoke are exactly the default tools and
\* the catalog tools its tool set names: a call of a default tool is never
\* answered 'not found', whatever the agent declares, and a call of any
\* other tool is resolved if and only if the tool is in the catalog and
\* declared by the agent.
C36_AvailableToolsAreDefaultsPlusDeclared ==
    /\ AvailableTools(Agent(current_agent_id), tools) =
          DefaultToolNames \cup (tools \cap Agent(current_agent_id).tool_ids)
    /\ \A i \in 1..Len(history) :
          (Len(messages) >= 2 * i + 2 /\ messages[2 * i + 2].content.kind = "tool_results") =>
              \A k \in 1..Len(ResultsOf(i)) :
                  LET r == ResultsOf(i)[k] IN
                  /\ r.tool \in DefaultToolNames => r.kind # "not_found"
                  /\ r.tool \notin DefaultToolNames =>
                        (r.kind # "not_found" <=>
                            /\ r.tool \in tools
                            /\ r.tool \in Agent(current_agent_id).tool_ids)

\* Bob declares no tool and the catalog holds calc: Bob's calc call was
\* answered 'not found', and his write_file call was executed
C36_Witness ==
    /\ current_agent_id = "B"
    /\ "calc" \in tools
    /\ Agent("B").tool_ids = {}
    /\ Len(history) >= 2
    /\ history[1].response = CalcCall
    /\ ResultsOf(1)[1].kind = "not_found"
    /\ history[2].response = WriteCall
    /\ ResultsOf(2)[1].kind = "executed"

\* paths and contents to write and read back
SamplePaths == {"out.txt", "b.txt"}
SampleContents == {StrValue(<<Txt("x")>>), StrValue(<<Txt("a"), Txt(""), Txt("b")>>)}

PathArg(p) == StrValue(<<Txt(p)>>)

WriteArgs(p, c, mode) ==
    [n \in {"file_path", "content", "mode"} |->
        CASE n = "file_path" -> PathArg(p)
          [] n = "content" -> c
          [] OTHER -> StrValue(<<Txt(mode)>>)]

ReadArgs(p) == [n \in {"file_path"} |-> PathArg(p)]

\* C37: on every filesystem the program reaches, for every path p and
\* contents c and d: after write_file(p, c) in mode w, read_file(p) returns
\* exactly c; after a further write_file(p, d) in mode a it returns c
\* followed by d; no other path changes; read_file of an absent path fails
\* and changes nothing.
C37_WriteThenReadReturnsContent ==
    \A p \in SamplePaths :
        /\ \A c, d \in SampleContents :
              LET w == write_file(files, WriteArgs(p, c, "w"))
                  a == write_file(w.files, WriteArgs(p, d, "a"))
              IN
              /\ w.success /\ a.success
              /\ read_file(w.files, ReadArgs(p)).success
              /\ read_file(w.files, ReadArgs(p)).result = c
              /\ read_file(a.files, ReadArgs(p)).result = Concat(c, d)
              /\ read_file(a.files, ReadArgs(p)).files = a.files
              /\ DOMAIN a.files = DOMAIN files \cup {p}
              /\ \A q \in DOMAIN files \ {p} :
                    w.files[q] = files[q] /\ a.files[q] = files[q]
        /\ p \notin DOMAIN files =>
              /\ ~read_file(files, ReadArgs(p)).success
              /\ read_file(files, ReadArgs(p)).files = files

\* C38: in every result of run_agent, finished and a delegation never
\* hold together and the history has one entry per model call (as many as
\* iterations); a response without tool calls that carries a well-formed
\* delegation marker and the completion marker ends the turn as a
\* delegation.
C38_FinishedExcludesDelegation ==
    pc = "post" =>
        /\ ~(result.finished /\ result.delegation # None)
        /\ Len(result.history) = result.iterations
        /\ result.iterations = model_calls
        /\ \A i \in 1..Len(result.history) :
              LET response == result.history[i].response IN
              (/\ Readings[response].tool_calls = <<>>
               /\ WellFormedMarker(response)
               /\ is_finished_marker(response)) =>
                  /\ i = Len(result.history)
                  /\ result.delegation # None
                  /\ ~result.finished

\* lines s..e are a complete call: BEGIN_TOOL_CALL with a name at s, the
\* first END_TOOL_CALL after it at e, and no other BEGIN_TOOL_CALL between
CompleteCall(response, s, e) ==
    /\ s < e
    /\ response[s].k = "BTC" /\ response[s].a # ""
    /\ response[e].k = "ETC"
    /\ \A m \in (s + 1)..(e - 1) : response[m].k \notin {"BTC", "ETC"}

\* the opening lines of the complete calls of a response
CompleteStarts(response) ==
    {s \in 1..Len(response) : \E e \in 1..Len(response) : CompleteCall(response, s, e)}

\* C39: parse_response emits one call per complete BEGIN_TOOL_CALL ...
\* END_TOOL_CALL block, in order of appearance; each has the tool name of
\* its own block and only arguments named inside it, also when an
\* unterminated call comes before it.
C39_CompleteCallAfterUnterminated ==
    \A i \in 1..Len(history) :
        LET response == history[i].response
            calls == parse_response(response).tool_calls
            starts == CompleteStarts(response)
        IN
        /\ Len(calls) = Cardinality(starts)
        /\ \A s \in starts :
              LET k == Cardinality({s2 \in starts : s2 <= s})
                  e == CHOOSE e1 \in 1..Len(response) : CompleteCall(response, s, e1)
              IN
              /\ calls[k].tool = response[s].a
              /\ calls[k].raw = SubSeq(response, s, e)
              /\ DOMAIN calls[k].arguments \subseteq
                    {response[j].a : j \in ArgBlocks(response, s, e)}

\* C40: a [DELEGATE: id] marker followed by a non-empty task is recognised
\* for every agent id, the hyphenated UUID-style ids of stored agents
\* included: the first such marker of a response without tool calls is the
\* delegation that run_agent reads, with that id as to_agent.
C40_DelegationToAnyAgentId ==
    \A i \in 1..Len(history) :
        LET response == history[i].response IN
        \A m \in 1..Len(response) :
            (/\ Readings[response].tool_calls = <<>>
             /\ response[m].k = "DLG"
             /\ response[m].a # ""
             /\ \A m2 \in 1..(m - 1) : response[m2].k # "DLG"
             /\ Strip(<<Txt(response[m].b)>>
                      \o SubSeq(response, m + 1, NextMarker(response, m) - 1)) # EmptyStr) =>
                /\ parse_delegation(response) # None
                /\ parse_delegation(response).to_agent = response[m].a
                /\ i = Len(history)
                /\ delegation # None
                /\ delegation.to_agent = response[m].a

====
